---- MODULE Spec2Model ----
(***************************************************************************)
(* Model of the market analytics engine of yfinance-ux: the single-symbol  *)
(* jobs (get_ticker_data, get_ticker_full_data, calculate_momentum,        *)
(* fetch_price_at_date, fetch_price_history) as operators over the quote   *)
(* provider's responses, and the batch operations (get_market_snapshot,    *)
(* get_markets_data, fetch_multiple_histories) as a state machine over a   *)
(* call-local ThreadPoolExecutor.  The calculations on fetched series      *)
(* (calculate_idio_vol, calculate_rsi), the options analytics              *)
(* (get_options_data), the symbol normalizers (normalize_ticker_symbol,    *)
(* normalize_symbol) and the sector lookup of get_sector_data are          *)
(* operators over what the caller passed and the provider returned, each   *)
(* applied by a specification of its own.                                  *)
(*                                                                         *)
(* An optional value (Python None or a value) is a set with at most one    *)
(* element: None is {} and a present value x is {x}.  A float is an exact  *)
(* fraction <<numerator, denominator>> in lowest terms.                    *)
(***************************************************************************)
EXTENDS Integers, Sequences, FiniteSets, TLC

\* ------------------------------------------------------------------ bounds
MaxJobs == 3        \* most jobs one batch call submits
MaxCats == 2        \* most names in a get_market_snapshot request
MaxSyms == 3        \* most symbols in a fetch_multiple_histories request
MaxWidth == 2       \* largest max_workers passed to fetch_multiple_histories
MaxRows == 2        \* most rows the provider returns for a +-5 day window
NumCalls == 2       \* batch calls in one behaviour
MaxShared == 2      \* most jobs of all calls together once a second call is made
MaxSkew == 1        \* latest first day of a 12-month history, counted from day 1
MaxOver == 2        \* most rows a 12-month history has beyond min_history_len
HoleDay == 10       \* the trading day a history may lack
MaxPrices == 4      \* longest short price series given to calculate_rsi
MaxPeriod == 3      \* largest short period given to calculate_rsi
MaxContracts == 2   \* most contracts on one side of an option chain
MaxExps == 4        \* most expiration dates the provider lists
MaxSymbolLen == 4   \* longest symbol made of arbitrary characters
MaxPieces == 3      \* most words and separators in a sector name

\* ---------------------------------------------------------------- helpers
None == {}
Some(x) == {x}
Val(o) == CHOOSE x \in o : TRUE
Option(S) == {None} \cup {Some(x) : x \in S}

Abs(x) == IF x < 0 THEN -x ELSE x

RECURSIVE GCD(_, _)
GCD(a, b) == IF b = 0 THEN a ELSE GCD(b, a % b)

\* The fraction n/d (d # 0) in lowest terms with a positive denominator.
Frac(n, d) ==
    LET g == GCD(Abs(n), Abs(d))
        s == IF d < 0 THEN -1 ELSE 1
    IN  <<(s * n) \div g, (s * d) \div g>>

\* Python truthiness of an optional number: None and 0 are falsy.
Falsy(o) == o = None \/ o = Some(0)

\* Python `a or b`.
PyOr(a, b) == IF Falsy(a) THEN b ELSE a

\* ((current - anchor) / anchor) * 100
PercentChange(current, anchor) == Frac((current - anchor) * 100, anchor)

\* ------------------------------------------------- the provider's answers
Closes == {0, 100}
Offsets == {-2, -1, 0, 1}  \* days between a row's timestamp and the target

\* ticker.history(start, end) for a narrow window: the call raises, or it
\* returns rows (timestamp offset, Close) where Close may be NaN (None).
\* The rows come in ascending order of their timestamps, one row per day.
WindowRows ==
    {r \in UNION {[1..n -> [off : Offsets, close : Option(Closes)]] : n \in 0..MaxRows} :
        \A i, j \in 1..Len(r) : i < j => r[i].off < r[j].off}
Windows == {[ok |-> FALSE, rows |-> <<>>]} \cup {[ok |-> TRUE, rows |-> r] : r \in WindowRows}

\* ticker.fast_info: the access raises, or .get gives lastPrice / previousClose.
FastInfos ==
    {[ok |-> FALSE, lastPrice |-> None, previousClose |-> None]} \cup
    [ok : {TRUE}, lastPrice : Option({0, 110}), previousClose : Option({0, 100})]

\* ticker.info: the access raises, or it is a dict whose keys may be missing.
Infos ==
    {[ok |-> FALSE, regularMarketPrice |-> None, currentPrice |-> None,
      regularMarketChangePercent |-> None]} \cup
    [ok : {TRUE}, regularMarketPrice : Option({0, 110}), currentPrice : Option({100}),
     regularMarketChangePercent : Option({<<1, 2>>})]

\* What one fetch_price_at_date call gave calculate_momentum: whether the
\* provider call inside it succeeded, how many close prices the provider
\* returned for the window, and the price the call returned.
NoAnchor == [ok |-> TRUE, closes |-> 0, price |-> None]
NoMomentumCalls == [fast |-> [ok |-> TRUE, lastPrice |-> None, previousClose |-> None],
                    a1y |-> NoAnchor, a1m |-> NoAnchor, a1w |-> NoAnchor]

ProviderError == "provider error"      \* str(e) of the exception a provider call raises

\* ------------------------------------------------------ fetch_price_at_date
RECURSIVE dropna(_)
dropna(rows) ==
    IF rows = <<>> THEN <<>>
    ELSE IF Head(rows).close = None THEN dropna(Tail(rows))
    ELSE <<Head(rows)>> \o dropna(Tail(rows))

\* min(time_diffs, key=lambda x: x[0]): the first row of least distance.
ClosestFirst(closes) ==
    LET i == CHOOSE i \in 1..Len(closes) :
                /\ \A j \in 1..Len(closes) : Abs(closes[i].off) <= Abs(closes[j].off)
                /\ \A j \in 1..(i - 1) : Abs(closes[j].off) > Abs(closes[i].off)
    IN  closes[i]

\* Mutant: the first price of the window instead of the nearest.
FetchFirstInWindow(w) ==
    IF ~w.ok \/ w.rows = <<>> \/ Len(dropna(w.rows)) = 0 THEN None
    ELSE dropna(w.rows)[1].close

\* The number of close prices the provider returned for the window.
ClosePrices(w) == IF w.ok THEN Len(dropna(w.rows)) ELSE 0

fetch_price_at_date(w) ==
    IF ~w.ok THEN None                          \* except Exception: return None
    ELSE IF w.rows = <<>> THEN None             \* hist.empty
    ELSE LET closes == dropna(w.rows)
         IN  IF Len(closes) = 0 THEN None
             ELSE ClosestFirst(closes).close

\* ------------------------------------------------------- calculate_momentum
AllNoneMomentum == [momentum_1w |-> None, momentum_1m |-> None, momentum_1y |-> None]

\* Mutant: a horizon without an anchor reports a return of zero.
HorizonMomentumZero(current, anchor) ==
    IF Falsy(anchor) THEN Some(<<0, 1>>) ELSE Some(PercentChange(current, Val(anchor)))

\* One horizon: ((current - anchor) / anchor * 100) if anchor else None.
HorizonMomentum(current, anchor) ==
    IF Falsy(anchor) THEN None ELSE Some(PercentChange(current, Val(anchor)))

\* Mutant: a missing 1-year anchor suppresses every horizon.
MomentumAllOrNothing(m) ==
    IF ~m.fast.ok \/ m.fast.lastPrice = None \/ Falsy(m.a1y.price) THEN AllNoneMomentum
    ELSE LET current == Val(m.fast.lastPrice)
         IN  [momentum_1w |-> HorizonMomentum(current, m.a1w.price),
              momentum_1m |-> HorizonMomentum(current, m.a1m.price),
              momentum_1y |-> HorizonMomentum(current, m.a1y.price)]

\* m.fast is what ticker.fast_info gave; m.a1y, m.a1m, m.a1w are what the three
\* fetch_price_at_date calls returned.
calculate_momentum(m) ==
    IF ~m.fast.ok THEN AllNoneMomentum                  \* except Exception
    ELSE IF m.fast.lastPrice = None THEN AllNoneMomentum
    ELSE LET current == Val(m.fast.lastPrice)
         IN  [momentum_1w |-> HorizonMomentum(current, m.a1w.price),
              momentum_1m |-> HorizonMomentum(current, m.a1m.price),
              momentum_1y |-> HorizonMomentum(current, m.a1y.price)]

\* ---------------------------------------------------------- get_ticker_data
ErrorRecord(symbol) == [symbol |-> symbol, error |-> ProviderError]

\* p.info is what ticker.info gave, p.mom what calculate_momentum's calls gave.
get_ticker_data(symbol, include_momentum, p) ==
    IF ~p.info.ok THEN ErrorRecord(symbol)
    ELSE LET result == [symbol |-> symbol,
                        price |-> PyOr(p.info.regularMarketPrice, p.info.currentPrice),
                        change_percent |-> p.info.regularMarketChangePercent]
         IN  IF include_momentum THEN calculate_momentum(p.mom) @@ result
             ELSE result

\* ----------------------------------------------------- get_ticker_full_data
FuturesSymbols == {"ES=F", "NQ=F", "YM=F"}
is_futures(symbol) == symbol \in FuturesSymbols          \* symbol.endswith("=F")

\* Mutant: a failure inside calculate_momentum is reported as the job's error.
FullDataMomentumErrorEscapes(symbol, p) ==
    IF (IF is_futures(symbol) THEN ~p.info.ok ELSE ~p.fast.ok)
       \/ ~p.mom.fast.ok \/ ~p.mom.a1y.ok \/ ~p.mom.a1m.ok \/ ~p.mom.a1w.ok
    THEN ErrorRecord(symbol)
    ELSE [symbol |-> symbol,
          price |-> IF is_futures(symbol)
                    THEN PyOr(p.info.regularMarketPrice, p.info.currentPrice)
                    ELSE p.fast.lastPrice,
          change_percent |-> None,
          momentum_1m |-> calculate_momentum(p.mom).momentum_1m,
          momentum_1y |-> calculate_momentum(p.mom).momentum_1y]

get_ticker_full_data(symbol, p) ==
    IF is_futures(symbol) /\ ~p.info.ok THEN ErrorRecord(symbol)
    ELSE IF ~is_futures(symbol) /\ ~p.fast.ok THEN ErrorRecord(symbol)
    ELSE LET price == IF is_futures(symbol)
                      THEN PyOr(p.info.regularMarketPrice, p.info.currentPrice)
                      ELSE p.fast.lastPrice
             prev_close == p.fast.previousClose
             change_pct ==
                 IF is_futures(symbol) THEN p.info.regularMarketChangePercent
                 ELSE IF price # None /\ prev_close # None /\ prev_close # Some(0)
                      THEN Some(PercentChange(Val(price), Val(prev_close)))
                      ELSE None
             momentum == calculate_momentum(p.mom)
         IN  [symbol |-> symbol,
              price |-> price,
              change_percent |-> change_pct,
              momentum_1m |-> momentum.momentum_1m,
              momentum_1y |-> momentum.momentum_1y]

\* ------------------------------------------------------ fetch_price_history
\* pd.DataFrame(): no columns, no rows.
EmptyDataFrame == [columns |-> {}, rows |-> <<>>]

\* ticker.history(start, end, interval) over the full window: the call raises,
\* or it returns a frame that may have no rows.
Histories ==
    {[ok |-> FALSE, frame |-> EmptyDataFrame],
     [ok |-> TRUE, frame |-> [columns |-> {"Close"}, rows |-> <<>>]],
     [ok |-> TRUE, frame |-> [columns |-> {"Close"}, rows |-> <<100, 110>>]]}

fetch_price_history(h) ==
    IF ~h.ok THEN EmptyDataFrame                         \* except Exception
    ELSE IF h.frame.rows = <<>> THEN EmptyDataFrame      \* hist.empty
    ELSE h.frame

\* ------------------------------------------------------- calculate_idio_vol
min_history_len == 30

\* A 12-month daily history as the provider returns it: the call raises, or
\* it returns one row per trading day with a close price.  Only the days of
\* the rows matter here: the days first..last, without day `hole` if it lies
\* among them.
Days(first, len, hole) == {d \in first..(first + len - 1) : d # hole}

DailyHistories ==
    {[ok |-> FALSE, index |-> {}], [ok |-> TRUE, index |-> {}]} \cup
    {[ok |-> TRUE, index |-> Days(first, len, hole)] :
        first \in 1..(1 + MaxSkew),
        len \in (min_history_len - 1)..(min_history_len + MaxOver),
        hole \in {0, HoleDay}}

\* fetch_ticker_and_market: the index of the frame fetch_price_history gives,
\* the empty frame when the fetch failed or returned no rows.
history_index(h) == IF ~h.ok THEN {} ELSE h.index

\* hist["Close"].pct_change().dropna(): the first row has no return.
returns_index(index) ==
    IF index = {} THEN {} ELSE index \ {CHOOSE d \in index : \A e \in index : d <= e}

BothAbsent == [idio_vol |-> None, total_vol |-> None]

\* A float computed from n aligned returns; only its presence is modelled.
Computed(what, n) == Some([of |-> what, n |-> n])

\* Mutant: a regression that raises keeps the total volatility computed before it.
IdioVolKeepsTotal(t, m, fit_ok) ==
    LET hist_ticker == history_index(t)
        hist_market == history_index(m)
        common_dates == returns_index(hist_ticker) \cap returns_index(hist_market)
    IN  IF hist_ticker = {} \/ hist_market = {} THEN BothAbsent
        ELSE IF Cardinality(hist_ticker) < min_history_len
                \/ Cardinality(hist_market) < min_history_len THEN BothAbsent
        ELSE IF Cardinality(common_dates) < min_history_len THEN BothAbsent
        ELSE IF ~fit_ok
             THEN [idio_vol |-> None,
                   total_vol |-> Computed("total_vol", Cardinality(common_dates))]
        ELSE [idio_vol |-> Computed("idio_vol", Cardinality(common_dates)),
              total_vol |-> Computed("total_vol", Cardinality(common_dates))]

\* t and m are the provider's histories of the ticker and of the market index;
\* fit_ok is FALSE when np.polyfit raises (returns that are not finite).
calculate_idio_vol(t, m, fit_ok) ==
    LET hist_ticker == history_index(t)
        hist_market == history_index(m)
        common_dates == returns_index(hist_ticker) \cap returns_index(hist_market)
    IN  IF hist_ticker = {} \/ hist_market = {} THEN BothAbsent
        ELSE IF Cardinality(hist_ticker) < min_history_len
                \/ Cardinality(hist_market) < min_history_len THEN BothAbsent
        ELSE IF Cardinality(common_dates) < min_history_len THEN BothAbsent
        ELSE IF ~fit_ok THEN BothAbsent                      \* except Exception
        ELSE [idio_vol |-> Computed("idio_vol", Cardinality(common_dates)),
              total_vol |-> Computed("total_vol", Cardinality(common_dates))]

\* ------------------------------------------------------------ calculate_rsi
RSI_PERIOD == 14

\* Arithmetic on fractions.
FracAdd(a, b) == Frac(a[1] * b[2] + b[1] * a[2], a[2] * b[2])
FracSub(a, b) == Frac(a[1] * b[2] - b[1] * a[2], a[2] * b[2])
FracDiv(a, b) == Frac(a[1] * b[2], a[2] * b[1])            \* b # 0
FracMul(a, b) == Frac(a[1] * b[1], a[2] * b[2])
FracLess(a, b) == a[1] * b[2] < b[1] * a[2]

\* delta = prices.diff(): the first entry is NaN (None).
diff(prices) ==
    [i \in 1..Len(prices) |-> IF i = 1 THEN None ELSE Some(prices[i] - prices[i - 1])]

\* gain = delta.where(delta > 0, 0): a NaN fails the test and becomes 0.
gain_of(delta) ==
    [i \in 1..Len(delta) |-> IF delta[i] # None /\ Val(delta[i]) > 0 THEN Val(delta[i]) ELSE 0]

\* loss = -delta.where(delta < 0, 0)
loss_of(delta) ==
    [i \in 1..Len(delta) |-> IF delta[i] # None /\ Val(delta[i]) < 0 THEN -Val(delta[i]) ELSE 0]

RECURSIVE SumLast(_, _)
SumLast(s, n) == IF n = 0 THEN 0 ELSE s[Len(s)] + SumLast(SubSeq(s, 1, Len(s) - 1), n - 1)

\* s.rolling(window=period).mean().iloc[-1]: NaN (None) with fewer than
\* period entries.
rolling_mean_last(s, period) ==
    IF Len(s) < period THEN None ELSE Some(Frac(SumLast(s, period), period))

\* 100 - (100 / (1 + rs)) for the last entry, where rs = avg_gain / avg_loss
\* is infinite for a zero avg_loss and NaN for 0 / 0; NaN gives None.
rsi_last(avg_gain, avg_loss) ==
    IF avg_gain = None \/ avg_loss = None THEN None
    ELSE IF Val(avg_loss)[1] = 0
         THEN IF Val(avg_gain)[1] = 0 THEN None ELSE Some(<<100, 1>>)
    ELSE LET rs == FracDiv(Val(avg_gain), Val(avg_loss))
         IN  Some(FracSub(<<100, 1>>, FracDiv(<<100, 1>>, FracAdd(<<1, 1>>, rs))))

\* Mutant: the NaN of the first delta is kept, so it takes period + 1 prices.
RsiFirstDeltaMissing(prices, period) ==
    IF Len(prices) <= period THEN None
    ELSE rsi_last(rolling_mean_last(gain_of(diff(prices)), period),
                  rolling_mean_last(loss_of(diff(prices)), period))

calculate_rsi(prices, period) ==
    IF Len(prices) = 0 THEN None                       \* rsi.iloc[-1] raises
    ELSE LET delta == diff(prices)
             avg_gain == rolling_mean_last(gain_of(delta), period)
             avg_loss == rolling_mean_last(loss_of(delta), period)
         IN  rsi_last(avg_gain, avg_loss)

\* The price series given to calculate_rsi: every short series over three
\* price levels, and flat, rising, falling and alternating series of about
\* RSI_PERIOD prices.
PriceLevels == {100, 101, 102}
LongShapes == {"flat", "rising", "falling", "alternating"}
LongSeries(shape, n) ==
    [i \in 1..n |-> CASE shape = "flat" -> 100
                      [] shape = "rising" -> 100 + i
                      [] shape = "falling" -> 200 - i
                      [] OTHER -> 100 + (i % 2)]
PriceSeries ==
    UNION {[1..n -> PriceLevels] : n \in 0..MaxPrices}
    \cup {LongSeries(shape, n) : shape \in LongShapes,
                                 n \in (RSI_PERIOD - 1)..(RSI_PERIOD + MaxOver)}
Periods == (2..MaxPeriod) \cup {RSI_PERIOD}

\* --------------------------------------------------------- get_options_data
\* The expiration dates the provider may list, nearest first, and the number
\* of calendar days from today to each.
ListedDates == <<"2025-11-21", "2025-12-19", "2026-01-16", "2026-03-20", "2026-06-18">>
UnlistedDate == "2025-12-05"
DaysAhead(date) ==
    CASE date = "2025-11-21" -> 17
      [] date = "2025-12-19" -> 45
      [] date = "2026-01-16" -> 73
      [] date = "2026-03-20" -> 136
      [] OTHER -> 226

\* (exp_datetime - now).days, where exp_datetime is midnight of the expiration
\* and now is some time into today: the whole days that fit.
dte_of(date) == DaysAhead(date) - 1

\* One contract row of chain.calls or chain.puts; volume may be NaN (None),
\* impliedVolatility is in the provider's fractional form.
Contract(strike, q) ==
    [strike |-> strike, openInterest |-> q.openInterest, volume |-> q.volume,
     impliedVolatility |-> q.impliedVolatility]

Strikes == {90, 100, 110}
QuoteKinds ==
    {[openInterest |-> 0, volume |-> None, impliedVolatility |-> <<1, 2>>],
     [openInterest |-> 1, volume |-> Some(7), impliedVolatility |-> <<2, 5>>],
     [openInterest |-> 3, volume |-> Some(0), impliedVolatility |-> <<9, 20>>]}

\* The rows of one side of a chain come in ascending order of strike.
ContractRows ==
    {r \in UNION {[1..n -> {Contract(k, q) : k \in Strikes, q \in QuoteKinds}] :
                    n \in 0..MaxContracts} :
        \A i, j \in 1..Len(r) : i < j => r[i].strike < r[j].strike}

\* ticker.option_chain(date): the call raises, or it returns calls and puts.
RaisingChain == [ok |-> FALSE, calls |-> <<>>, puts |-> <<>>]
OneStrikeChain(q) ==
    [ok |-> TRUE, calls |-> <<Contract(100, q)>>,
     puts |-> <<Contract(100, [q EXCEPT !.impliedVolatility = <<9, 20>>])>>]
FullChains == [ok : {TRUE}, calls : ContractRows, puts : ContractRows]
PlainChains ==
    {RaisingChain, [ok |-> TRUE, calls |-> <<>>, puts |-> <<>>]}
    \cup {OneStrikeChain(q) : q \in QuoteKinds}

\* ticker.options: the access raises, or it is the tuple of listed dates.
ListedOptions ==
    {[ok |-> FALSE, dates |-> <<>>]}
    \cup {[ok |-> TRUE, dates |-> SubSeq(ListedDates, 1, n)] : n \in 0..MaxExps}

\* ticker.fast_info.get("lastPrice", 0): the access raises, or it gives None
\* or a price; a missing key gives 0.
OptionPrices == {0, 95, 100}

\* ticker.history(period="3mo", interval="1d"): the call raises, or it returns
\* so many daily rows; vol is the annualised deviation of their returns in
\* percent.
MinHistRows == 30
RollingWindow == 30
TradingDaysPerYear == 252
RecentHistories ==
    {[ok |-> FALSE, rows |-> 0, vol |-> <<0, 1>>], [ok |-> TRUE, rows |-> 0, vol |-> <<0, 1>>]}
    \cup {[ok |-> TRUE, rows |-> n, vol |-> <<25, 1>>] :
            n \in {MinHistRows - 1, MinHistRows, 2 * MinHistRows + 3}}

\* ticker.history(period="1y", interval="1d"): the call raises, or it returns
\* so many daily rows; high and low are the largest and the smallest of the
\* rolling deviations of their returns in percent, where there are any.
YearHistories ==
    {[ok |-> FALSE, rows |-> 0, high |-> <<0, 1>>, low |-> <<0, 1>>],
     [ok |-> TRUE, rows |-> 0, high |-> <<0, 1>>, low |-> <<0, 1>>]}
    \cup {[ok |-> TRUE, rows |-> n, high |-> r[1], low |-> r[2]] :
            n \in {RollingWindow, TradingDaysPerYear \div 3, TradingDaysPerYear},
            r \in {<<(<<60, 1>>), (<<20, 1>>)>>, <<(<<20, 1>>), (<<20, 1>>)>>}}

NoHistory == [recent |-> [ok |-> FALSE, rows |-> 0, vol |-> <<0, 1>>],
              year |-> [ok |-> FALSE, rows |-> 0, high |-> <<0, 1>>, low |-> <<0, 1>>]]

\* What the provider gives one get_options_data call: the listed dates, the
\* chain of each listed date (cs, in listing order), the last price, which of
\* two equally near strikes the unstable argsort puts first, and the price
\* histories (here: both history calls raise).
IndexOfDate(date) == CHOOSE i \in 1..Len(ListedDates) : ListedDates[i] = date

World(listing, cs, fast, tie) ==
    [options |-> listing,
     chains |-> [d \in {ListedDates[i] : i \in 1..Len(ListedDates)} |->
                    IF IndexOfDate(d) <= Len(cs) THEN cs[IndexOfDate(d)] ELSE RaisingChain],
     fast |-> fast,
     tie |-> tie,
     hist |-> NoHistory]

\* Many listings over plain chains, and one listing over every chain.
ListingWorlds ==
    UNION {{World(l, cs, f, "first") :
                cs \in [1..Len(l.dates) -> PlainChains],
                f \in {[ok |-> FALSE, lastPrice |-> None], [ok |-> TRUE, lastPrice |-> None],
                        [ok |-> TRUE, lastPrice |-> Some(100)]}} :
           l \in ListedOptions}
ChainWorlds ==
    {World([ok |-> TRUE, dates |-> SubSeq(ListedDates, 1, 1)], <<c>>,
           [ok |-> TRUE, lastPrice |-> Some(x)], t) :
        c \in FullChains, x \in OptionPrices, t \in {"first", "last"}}


\* Chains whose contracts trade at a multiple of their open interest, or carry
\* far more open interest than the others, under one listing and one price.
PositionKinds ==
    {[openInterest |-> 2, volume |-> Some(6), impliedVolatility |-> <<1, 4>>],
     [openInterest |-> 2, volume |-> Some(4), impliedVolatility |-> <<1, 4>>],
     [openInterest |-> 2, volume |-> Some(3), impliedVolatility |-> <<1, 4>>],
     [openInterest |-> 500, volume |-> None, impliedVolatility |-> <<1, 4>>]}
PositionRows ==
    {r \in UNION {[1..n -> {Contract(k, q) : k \in Strikes, q \in PositionKinds}] :
                    n \in 0..MaxContracts} :
        \A i, j \in 1..Len(r) : i < j => r[i].strike < r[j].strike}
PositionWorlds ==
    {World([ok |-> TRUE, dates |-> SubSeq(ListedDates, 1, 1)], <<c>>,
           [ok |-> TRUE, lastPrice |-> Some(100)], "first") :
        c \in [ok : {TRUE}, calls : PositionRows, puts : PositionRows]}

\* One chain under every pair of price histories.
HistoryWorlds ==
    {[World([ok |-> TRUE, dates |-> SubSeq(ListedDates, 1, 1)], <<OneStrikeChain(q)>>,
            [ok |-> TRUE, lastPrice |-> Some(100)], "first")
        EXCEPT !.hist = [recent |-> h, year |-> y]] :
        q \in QuoteKinds, h \in RecentHistories, y \in YearHistories}

Expirations == {"nearest", ListedDates[1], ListedDates[2], UnlistedDate}
OptionSymbols == {"AAPL"}

\* calls["volume"].fillna(0)
fillna_volume(rows) ==
    [i \in 1..Len(rows) |-> [rows[i] EXCEPT !.volume = IF @ = None THEN 0 ELSE Val(@)]]

\* int(rows[col].sum())
RECURSIVE SumColumn(_, _)
SumColumn(rows, col) ==
    IF rows = <<>> THEN 0 ELSE Head(rows)[col] + SumColumn(Tail(rows), col)

\* Mutant: an empty call side gives a ratio of one.
PcRatioOneWhenNoCalls(put_total, call_total) ==
    IF call_total > 0 THEN Frac(put_total, call_total) ELSE <<1, 1>>

\* put_total / call_total if call_total > 0 else 0
pc_ratio(put_total, call_total) ==
    IF call_total > 0 THEN Frac(put_total, call_total) ELSE <<0, 1>>

\* Mutant: the first call row is taken for the ATM one.
AtmFirstCall(calls, current_price, tie) == calls[1].strike

\* calls["strike"].iloc[(calls["strike"] - current_price).abs().argsort()[0]]
\* on a non-empty calls: the nearest call strike; of two equally near ones the
\* sort may put either first.
atm_strike_of(calls, current_price, tie) ==
    LET dist(i) == Abs(calls[i].strike - current_price)
        nearest == {i \in 1..Len(calls) : \A j \in 1..Len(calls) : dist(i) <= dist(j)}
        pick == IF tie = "first" THEN CHOOSE i \in nearest : \A j \in nearest : i <= j
                ELSE CHOOSE i \in nearest : \A j \in nearest : i >= j
    IN  calls[pick].strike

\* rows[rows["strike"] == strike]
AtStrike(rows, strike) == SelectSeq(rows, LAMBDA r : r.strike = strike)

\* float(row["impliedVolatility"].values[0] * 100)
Percent(iv) == Frac(iv[1] * 100, iv[2])

\* Mutant: a call struck at the price counts on neither side.
CallsOtmStrict(calls, current_price) == SelectSeq(calls, LAMBDA r : r.strike > current_price)

\* The ITM vs OTM breakdown.
calls_itm_of(calls, current_price) == SelectSeq(calls, LAMBDA r : r.strike < current_price)
calls_otm_of(calls, current_price) == SelectSeq(calls, LAMBDA r : r.strike >= current_price)
puts_itm_of(puts, current_price) == SelectSeq(puts, LAMBDA r : r.strike > current_price)
puts_otm_of(puts, current_price) == SelectSeq(puts, LAMBDA r : r.strike <= current_price)

\* float(rows["impliedVolatility"].mean() * 100) on non-empty rows
RECURSIVE SumIv(_)
SumIv(rows) ==
    IF rows = <<>> THEN <<0, 1>> ELSE FracAdd(Head(rows).impliedVolatility, SumIv(Tail(rows)))
mean_iv(rows) == Percent(FracDiv(SumIv(rows), <<Len(rows), 1>>))

\* The OTM average IV, or the ATM IV when no strike is that far out.
otm_iv_avg(far, atm_iv) == IF Len(far) > 0 THEN mean_iv(far) ELSE atm_iv

\* str(e) of what the analysis itself raises.
IndexError == "index 0 is out of bounds"
TypeError == "unsupported operand type"

InSeq(x, seq) == \E i \in 1..Len(seq) : seq[i] = x

\* Mutant: a date that is not listed falls back to the nearest one.
ExpDateFallsBack(expiration, expirations) ==
    IF expiration = "nearest" \/ ~InSeq(expiration, expirations) THEN expirations[1]
    ELSE expiration

\* expirations[0] if expiration == "nearest" else expiration
exp_date_of(expiration, expirations) ==
    IF expiration = "nearest" THEN expirations[1] ELSE expiration

\* The term-structure loop over the given dates: the points, the chains it
\* queried, and whether it ran through (a chain query that raises, or a chain
\* without calls, raises out of the loop).
RECURSIVE term_points(_, _, _)
term_points(dates, w, current_price) ==
    IF dates = <<>> THEN [ok |-> TRUE, points |-> <<>>, queries |-> <<>>, error |-> <<>>]
    ELSE LET exp == Head(dates)
             chain_exp == w.chains[exp]
         IN  IF ~chain_exp.ok
             THEN [ok |-> FALSE, points |-> <<>>, queries |-> <<exp>>,
                   error |-> <<ProviderError>>]
             ELSE IF chain_exp.calls = <<>>
             THEN [ok |-> FALSE, points |-> <<>>, queries |-> <<exp>>,
                   error |-> <<IndexError>>]
             ELSE LET atm_exp == atm_strike_of(chain_exp.calls, current_price, w.tie)
                      iv_exp == Percent(AtStrike(chain_exp.calls, atm_exp)[1].impliedVolatility)
                      rest == term_points(Tail(dates), w, current_price)
                  IN  [ok |-> rest.ok,
                       points |-> <<[expiration |-> exp, dte |-> dte_of(exp), iv |-> iv_exp]>>
                                  \o rest.points,
                       queries |-> <<exp>> \o rest.queries,
                       error |-> rest.error]

\* if len(expirations) >= 3: for exp in expirations[:3]
term_structure_of(expirations, w, current_price) ==
    IF Len(expirations) >= 3 THEN term_points(SubSeq(expirations, 1, 3), w, current_price)
    ELSE [ok |-> TRUE, points |-> <<>>, queries |-> <<>>, error |-> <<>>]

\* term_structure[0]["iv"] - term_structure[-1]["iv"] if len >= 2 else 0
contango_of(term_structure) ==
    IF Len(term_structure) >= 2
    THEN FracSub(term_structure[1].iv, term_structure[Len(term_structure)].iv)
    ELSE <<0, 1>>

\* Mutant: the summary stops at the first expiration that fails.
RECURSIVE AllExpirationsUntilFailure(_, _, _)
AllExpirationsUntilFailure(dates, w, current_price) ==
    IF dates = <<>> THEN [entries |-> <<>>, queries |-> <<>>]
    ELSE LET exp == Head(dates)
             chain_exp == w.chains[exp]
             rest == AllExpirationsUntilFailure(Tail(dates), w, current_price)
         IN  IF ~chain_exp.ok \/ chain_exp.calls = <<>>
             THEN [entries |-> <<>>, queries |-> <<exp>>]
             ELSE LET calls_exp == fillna_volume(chain_exp.calls)
                      puts_exp == fillna_volume(chain_exp.puts)
                      atm_exp == atm_strike_of(calls_exp, current_price, w.tie)
                  IN  [entries |->
                          <<[expiration |-> exp,
                             dte |-> dte_of(exp),
                             iv |-> Percent(AtStrike(calls_exp, atm_exp)[1].impliedVolatility),
                             total_oi |-> SumColumn(calls_exp, "openInterest")
                                          + SumColumn(puts_exp, "openInterest"),
                             total_volume |-> SumColumn(calls_exp, "volume")
                                              + SumColumn(puts_exp, "volume"),
                             call_oi |-> SumColumn(calls_exp, "openInterest"),
                             put_oi |-> SumColumn(puts_exp, "openInterest")]>> \o rest.entries,
                       queries |-> <<exp>> \o rest.queries]

\* The all-expirations loop: an expiration whose chain query raises, or whose
\* chain has no calls, is skipped.
RECURSIVE all_expirations_of(_, _, _)
all_expirations_of(dates, w, current_price) ==
    IF dates = <<>> THEN [entries |-> <<>>, queries |-> <<>>]
    ELSE LET exp == Head(dates)
             chain_exp == w.chains[exp]
             rest == all_expirations_of(Tail(dates), w, current_price)
         IN  IF ~chain_exp.ok \/ chain_exp.calls = <<>>
             THEN [entries |-> rest.entries, queries |-> <<exp>> \o rest.queries]
             ELSE LET calls_exp == fillna_volume(chain_exp.calls)
                      puts_exp == fillna_volume(chain_exp.puts)
                      atm_exp == atm_strike_of(calls_exp, current_price, w.tie)
                      call_oi_exp == SumColumn(calls_exp, "openInterest")
                      put_oi_exp == SumColumn(puts_exp, "openInterest")
                  IN  [entries |->
                          <<[expiration |-> exp,
                             dte |-> dte_of(exp),
                             iv |-> Percent(AtStrike(calls_exp, atm_exp)[1].impliedVolatility),
                             total_oi |-> call_oi_exp + put_oi_exp,
                             total_volume |-> SumColumn(calls_exp, "volume")
                                              + SumColumn(puts_exp, "volume"),
                             call_oi |-> call_oi_exp,
                             put_oi |-> put_oi_exp]>> \o rest.entries,
                       queries |-> <<exp>> \o rest.queries]

\* sorted(S)
RECURSIVE sorted(_)
sorted(S) ==
    IF S = {} THEN <<>>
    ELSE LET least == CHOOSE x \in S : \A y \in S : x <= y
         IN  <<least>> \o sorted(S \ {least})

StrikesOf(rows) == {rows[i].strike : i \in 1..Len(rows)}

\* sum(max(0, strike - c_strike) * c_oi for ... if c_strike < strike)
RECURSIVE call_pain(_, _)
call_pain(calls, strike) ==
    IF calls = <<>> THEN 0
    ELSE (IF Head(calls).strike < strike
          THEN (strike - Head(calls).strike) * Head(calls).openInterest ELSE 0)
         + call_pain(Tail(calls), strike)

\* Mutant: the puts struck below the candidate are the ones that pay.
RECURSIVE PutPainOfLowerStrikes(_, _)
PutPainOfLowerStrikes(puts, strike) ==
    IF puts = <<>> THEN 0
    ELSE (IF Head(puts).strike < strike
          THEN (strike - Head(puts).strike) * Head(puts).openInterest ELSE 0)
         + PutPainOfLowerStrikes(Tail(puts), strike)

\* sum(max(0, p_strike - strike) * p_oi for ... if p_strike > strike)
RECURSIVE put_pain(_, _)
put_pain(puts, strike) ==
    IF puts = <<>> THEN 0
    ELSE (IF Head(puts).strike > strike
          THEN (Head(puts).strike - strike) * Head(puts).openInterest ELSE 0)
         + put_pain(Tail(puts), strike)

\* Mutant: a later strike of equal pain replaces the earlier one.
MaxPainLastWins(best, strike, total_pain) ==
    IF best.min_pain_value = None \/ total_pain <= Val(best.min_pain_value)
    THEN [max_pain_strike |-> strike, min_pain_value |-> Some(total_pain)]
    ELSE best

\* if total_pain < min_pain_value: ...; min_pain_value None is float("inf").
max_pain_step(best, strike, total_pain) ==
    IF best.min_pain_value = None \/ total_pain < Val(best.min_pain_value)
    THEN [max_pain_strike |-> strike, min_pain_value |-> Some(total_pain)]
    ELSE best

RECURSIVE max_pain_loop(_, _, _, _)
max_pain_loop(strikes, calls, puts, best) ==
    IF strikes = <<>> THEN best
    ELSE max_pain_loop(Tail(strikes), calls, puts,
                       max_pain_step(best, Head(strikes),
                                     call_pain(calls, Head(strikes))
                                     + put_pain(puts, Head(strikes))))

max_pain_strike_of(calls, puts) ==
    max_pain_loop(sorted(StrikesOf(calls) \cup StrikesOf(puts)), calls, puts,
                  [max_pain_strike |-> 0, min_pain_value |-> None]).max_pain_strike

\* Mutant: a volume of twice the open interest is unusual already.
UnusualFromTwice(rows) == SelectSeq(rows, LAMBDA r : r.volume >= r.openInterest * 2)

\* rows[rows["volume"] > rows["openInterest"] * 2]
unusual_of(rows) == SelectSeq(rows, LAMBDA r : r.volume > r.openInterest * 2)

\* The historical IV block: None, or the dict of its four fields.  A rolling
\* deviation over RollingWindow returns exists only from that many returns on;
\* without one the maximum and the minimum are NaN (None) and the comparison
\* of the two is false.
hist_iv_data_of(hist, atm_call_iv) ==
    IF ~hist.recent.ok THEN None
    ELSE IF hist.recent.rows = 0 \/ hist.recent.rows < MinHistRows THEN None
    ELSE IF ~hist.year.ok THEN None
    ELSE IF hist.year.rows = 0 THEN None
    ELSE LET rolled == hist.year.rows - 1 >= RollingWindow
             iv_high_52w == IF rolled THEN Some(hist.year.high) ELSE None
             iv_low_52w == IF rolled THEN Some(hist.year.low) ELSE None
             iv_rank == IF rolled /\ FracLess(hist.year.low, hist.year.high)
                        THEN FracMul(FracDiv(FracSub(atm_call_iv, hist.year.low),
                                             FracSub(hist.year.high, hist.year.low)),
                                     <<100, 1>>)
                        ELSE <<50, 1>>
         IN  Some([hist_vol_30d |-> hist.recent.vol,
                   iv_high_52w |-> iv_high_52w,
                   iv_low_52w |-> iv_low_52w,
                   iv_rank |-> iv_rank])

\* The return of get_options_data together with the option chains it queried.
Fails(error, queries) == [out |-> [error |-> error], calls |-> queries]

\* The analysis of the chosen chain, once the chain and the price are there.
analytics_of(symbol, exp_date, expirations, chain, current_price, w) ==
    LET calls == fillna_volume(chain.calls)
        puts == fillna_volume(chain.puts)
        call_oi_total == SumColumn(calls, "openInterest")
        put_oi_total == SumColumn(puts, "openInterest")
        call_volume_total == SumColumn(calls, "volume")
        put_volume_total == SumColumn(puts, "volume")
        atm_strike == atm_strike_of(calls, current_price, w.tie)
    IN  IF AtStrike(puts, atm_strike) = <<>>
        THEN Fails(<<IndexError>>, <<exp_date>>)        \* atm_put_row is empty
        ELSE
        LET atm_call_iv == Percent(AtStrike(calls, atm_strike)[1].impliedVolatility)
            atm_put_iv == Percent(AtStrike(puts, atm_strike)[1].impliedVolatility)
            otm_put_strikes == SelectSeq(puts, LAMBDA r : r.strike * 10 < current_price * 9)
            otm_call_strikes == SelectSeq(calls, LAMBDA r : r.strike * 10 > current_price * 11)
            term == term_structure_of(expirations, w, current_price)
            all == all_expirations_of(expirations, w, current_price)
            unusual_calls == unusual_of(calls)
            unusual_puts == unusual_of(puts)
        IN  IF ~term.ok THEN Fails(term.error, <<exp_date>> \o term.queries)
            ELSE
            [out |->
                [symbol |-> symbol,
                 current_price |-> current_price,
                 expiration |-> exp_date,
                 dte |-> dte_of(exp_date),
                 atm_strike |-> atm_strike,
                 call_oi_total |-> call_oi_total,
                 put_oi_total |-> put_oi_total,
                 pc_ratio_oi |-> pc_ratio(put_oi_total, call_oi_total),
                 pc_ratio_vol |-> pc_ratio(put_volume_total, call_volume_total),
                 call_volume_total |-> call_volume_total,
                 put_volume_total |-> put_volume_total,
                 call_oi_itm |-> SumColumn(calls_itm_of(calls, current_price), "openInterest"),
                 call_oi_otm |-> SumColumn(calls_otm_of(calls, current_price), "openInterest"),
                 put_oi_itm |-> SumColumn(puts_itm_of(puts, current_price), "openInterest"),
                 put_oi_otm |-> SumColumn(puts_otm_of(puts, current_price), "openInterest"),
                 atm_call_iv |-> atm_call_iv,
                 atm_put_iv |-> atm_put_iv,
                 iv_spread |-> FracSub(atm_call_iv, atm_put_iv),
                 put_skew |-> FracSub(otm_iv_avg(otm_put_strikes, atm_put_iv), atm_put_iv),
                 call_skew |-> FracSub(otm_iv_avg(otm_call_strikes, atm_call_iv), atm_call_iv),
                 term_structure |-> term.points,
                 contango |-> contango_of(term.points),
                 all_expirations |-> all.entries,
                 max_pain_strike |-> max_pain_strike_of(calls, puts),
                 unusual_activity |-> Len(unusual_calls) + Len(unusual_puts) > 0,
                 unusual_calls |-> unusual_calls,
                 unusual_puts |-> unusual_puts,
                 hist_iv_data |-> hist_iv_data_of(w.hist, atm_call_iv)],
             calls |-> <<exp_date>> \o term.queries \o all.queries]

\* get_options_data(symbol, expiration) against the provider's answers w.
get_options_data_run(symbol, expiration, w) ==
    IF ~w.options.ok THEN Fails(<<ProviderError>>, <<>>)
    ELSE LET expirations == w.options.dates
         IN  IF Len(expirations) = 0
             THEN Fails(<<"No options data available for", symbol>>, <<>>)
             ELSE
             LET exp_date == exp_date_of(expiration, expirations)
             IN  IF ~InSeq(exp_date, expirations)
                 THEN Fails(<<"Expiration not available", expiration>>, <<>>)
                 ELSE
                 LET chain == w.chains[exp_date]
                 IN  IF ~chain.ok THEN Fails(<<ProviderError>>, <<exp_date>>)
                     ELSE IF chain.calls = <<>> \/ chain.puts = <<>>
                     THEN Fails(<<"No options data available for expiration", symbol, exp_date>>,
                                <<exp_date>>)
                     ELSE IF ~w.fast.ok THEN Fails(<<ProviderError>>, <<exp_date>>)
                     ELSE IF w.fast.lastPrice = None THEN Fails(<<TypeError>>, <<exp_date>>)
                     ELSE analytics_of(symbol, exp_date, expirations, chain,
                                       Val(w.fast.lastPrice), w)

get_options_data(symbol, expiration, w) == get_options_data_run(symbol, expiration, w).out

\* ------------------------------------------------------- symbol normalizers
\* A symbol is the sequence of its characters.
UpperLetters == {"A", "B", "C", "E", "F", "H", "I", "K", "L", "N", "O", "P", "R", "T", "X"}
LowerLetters == {"b", "l"}
Whitespace == {" "}

\* str.upper(), character by character.
upper_char(c) == CASE c = "b" -> "B" [] c = "l" -> "L" [] OTHER -> c
upper(s) == [i \in 1..Len(s) |-> upper_char(s[i])]

\* str.isupper(): some cased character, and no lowercase one.
isupper(s) ==
    /\ \E i \in 1..Len(s) : s[i] \in UpperLetters
    /\ \A i \in 1..Len(s) : s[i] \notin LowerLetters

\* str.strip()
RECURSIVE lstrip(_)
lstrip(s) == IF s # <<>> /\ Head(s) \in Whitespace THEN lstrip(Tail(s)) ELSE s
RECURSIVE rstrip(_)
rstrip(s) ==
    IF s # <<>> /\ s[Len(s)] \in Whitespace THEN rstrip(SubSeq(s, 1, Len(s) - 1)) ELSE s
strip(s) == rstrip(lstrip(s))

\* str.replace(old, new) for single characters.
replace(s, old, new) == [i \in 1..Len(s) |-> IF s[i] = old THEN new ELSE s[i]]

\* str.split(sep) for a single character.
RECURSIVE split(_, _)
split(s, sep) ==
    IF ~InSeq(sep, s) THEN <<s>>
    ELSE LET i == CHOOSE k \in 1..Len(s) : s[k] = sep /\ \A j \in 1..(k - 1) : s[j] # sep
         IN  <<SubSeq(s, 1, i - 1)>> \o split(SubSeq(s, i + 1, Len(s)), sep)

single_letter_exchanges == {<<"L">>, <<"F">>, <<"P">>}

\* Mutant: the period rule comes first, and a slash becomes a period.
NormalizeSlashToPeriod(symbol) ==
    IF InSeq(".", symbol)
    THEN LET parts == split(symbol, ".")
         IN  IF Len(parts) = 2 /\ Len(parts[2]) >= 2 /\ isupper(parts[2]) THEN symbol
             ELSE replace(symbol, ".", "-")
    ELSE replace(symbol, "/", ".")

\* normalize_ticker_symbol(symbol) of common/symbols.py
normalize_ticker_symbol(symbol) ==
    LET slashed == replace(symbol, "/", "-")
    IN  IF InSeq(".", slashed)
        THEN LET parts == split(slashed, ".")
             IN  IF Len(parts) = 2 /\ Len(parts[2]) >= 2 /\ isupper(parts[2]) THEN slashed
                 ELSE replace(slashed, ".", "-")
        ELSE slashed

\* The period rule shared by the archived normalize_ticker_symbol and by
\* normalize_symbol, on a symbol whose slashes are replaced already.
exchange_suffix_rule(slashed) ==
    IF InSeq(".", slashed)
    THEN LET parts == split(slashed, ".")
             suffix == upper(parts[2])
         IN  IF /\ Len(parts) = 2
                /\ \/ Len(suffix) = 1 /\ suffix \in single_letter_exchanges
                   \/ Len(suffix) >= 2 /\ isupper(suffix)
             THEN slashed
             ELSE replace(slashed, ".", "-")
    ELSE slashed

\* normalize_ticker_symbol(symbol) of the archived common/symbols.py
normalize_ticker_symbol_archived(symbol) == exchange_suffix_rule(replace(symbol, "/", "-"))

\* normalize_symbol(symbol) of fetcher.py: None for an empty or blank symbol.
normalize_symbol(symbol) ==
    IF symbol = <<>> \/ strip(symbol) = <<>> THEN None
    ELSE Some(exchange_suffix_rule(replace(upper(strip(symbol)), "/", "-")))

\* The symbols a caller may pass: every short string over a few characters,
\* and the examples the documentation gives.
SymbolChars == {"B", "L", "b", "l", "7", ".", "/", " "}
ShortSymbols == UNION {[1..n -> SymbolChars] : n \in 0..MaxSymbolLen}
NEO_TO == <<"N", "E", "O", ".", "T", "O">>
HK_0700 == <<"0", "7", "0", "0", ".", "H", "K">>
RIO_L == <<"R", "I", "O", ".", "L">>
BHP_AX == <<"B", "H", "P", ".", "A", "X">>
BRK(sep, class) == <<"B", "R", "K", sep, class>>
BAC_PL(sep) == <<"B", "A", "C", sep, "P", "L">>
DocumentedSymbols ==
    {NEO_TO, HK_0700, RIO_L, BHP_AX, BAC_PL("."), BAC_PL("/")}
    \cup {BRK(sep, class) : sep \in {".", "/"}, class \in {"A", "B"}}
Symbols == ShortSymbols \cup DocumentedSymbols

Normalizers == {"normalize_ticker_symbol", "normalize_ticker_symbol (archived)",
                "normalize_symbol"}

\* The result of one normalizer as an optional string.
Normalize(impl, symbol) ==
    CASE impl = "normalize_ticker_symbol" -> Some(normalize_ticker_symbol(symbol))
      [] impl = "normalize_ticker_symbol (archived)" ->
            Some(normalize_ticker_symbol_archived(symbol))
      [] OTHER -> normalize_symbol(symbol)

\* ------------------------------------------------------------- sector names
\* A sector name is the sequence of its pieces: words, and the separators
\* between them.
SectorWords ==
    {"technology", "Technology", "tech", "real", "Real", "estate", "consumer",
     "discretionary", "staples", "disc", "stpl", "financials", "biotech"}
Separators == {" ", "_"}
SectorNames == UNION {[1..n -> SectorWords \cup Separators] : n \in 1..MaxPieces}

\* name.lower().replace(" ", "_")
lower_word(w) ==
    CASE w = "Technology" -> "technology" [] w = "Real" -> "real" [] OTHER -> w
sector_key_of(name) ==
    [i \in 1..Len(name) |-> IF name[i] = " " THEN "_" ELSE lower_word(name[i])]

\* name_to_key, and name_to_key[sector_key] where sector_key is in it.
name_to_key_keys ==
    {<<"technology">>, <<"consumer", " ", "discretionary">>, <<"consumer", " ", "staples">>}
name_to_key(key) ==
    CASE key = <<"technology">> -> <<"tech">>
      [] key = <<"consumer", " ", "discretionary">> -> <<"consumer", "_", "disc">>
      [] OTHER -> <<"consumer", "_", "stpl">>

\* MARKET_SYMBOLS.get(sector_key) on the keys a sector name can give.
market_symbols_get(key) ==
    CASE key = <<"tech">> -> Some("XLK")
      [] key = <<"financials">> -> Some("XLF")
      [] key = <<"consumer", "_", "disc">> -> Some("XLY")
      [] key = <<"consumer", "_", "stpl">> -> Some("XLP")
      [] key = <<"real", "_", "estate">> -> Some("XLRE")
      [] OTHER -> None

\* get_sector_data(name) up to the choice of the sector ETF: the error dict,
\* or the symbol whose data and holdings are fetched.
get_sector_data(name) ==
    LET normalized == sector_key_of(name)
        sector_key == IF normalized \in name_to_key_keys THEN name_to_key(normalized)
                      ELSE normalized
        sector_symbol == market_symbols_get(sector_key)
    IN  IF sector_symbol = None THEN [error |-> <<"Unknown sector", name>>]
        ELSE [symbol |-> Val(sector_symbol)]

\* ------------------------------------------------------------ lookup tables
\* CATEGORY_MAPPING and MARKET_SYMBOLS, restricted to the categories requested
\* in this model.
CATEGORY_MAPPING ==
    [c \in {"volatility", "rates", "bonds"} |->
        CASE c = "volatility" -> <<"vix">>
          [] c = "rates" -> <<"us10y">>
          [] OTHER -> <<"us10y", "us2y", "us30y">>]

MARKET_SYMBOLS ==
    [k \in {"vix", "us10y", "us2y", "us30y"} |->
        CASE k = "vix" -> "^VIX"
          [] k = "us10y" -> "^TNX"
          [] k = "us2y" -> "^IRX"
          [] OTHER -> "^TYX"]

\* The names a caller passes to get_market_snapshot in this model.
Names == {"volatility", "rates", "bonds", "VIX", "bogus"}

\* cat.lower()
lower(name) == IF name = "VIX" THEN "vix" ELSE name

\* The head of get_markets_data's symbols_to_fetch.
markets_symbols_to_fetch ==
    <<[key |-> "sp500", symbol |-> "^GSPC"],
      [key |-> "nasdaq", symbol |-> "^IXIC"],
      [key |-> "dow", symbol |-> "^DJI"],
      [key |-> "russell2000", symbol |-> "^RUT"],
      [key |-> "es_futures", symbol |-> "ES=F"]>>

HistorySymbols == {"AAPL", "^GSPC"}

DefaultWidth == 10       \* ThreadPoolExecutor(max_workers=10)

\* ------------------------------------------------------------------- state
VARIABLES
    cjob,       \* the single-symbol job being run: [fn, symbol, include_momentum]
    cstep,      \* the provider call the job is about to make
    cprov,      \* what the provider calls made so far gave
    cout,       \* the record the job returned
    req,        \* req[c]: the arguments of batch call c
    pc,         \* pc[c]: "idle", "collecting" (inside the with block) or "returned"
    futures,    \* futures[c]: the futures of call c, in submission order
    results,    \* results[c]: the call-local results dict
    ret,        \* ret[c]: what the caller has received, None until the call returns
    pool,       \* pool[c]: the ThreadPoolExecutor call c created (0: none yet)
    created,    \* number of executors created so far
    shutdown,   \* the executors that have been shut down
    fin,        \* the argument a calculation is applied to
    fat,        \* "input" before the calculation runs, "done" after
    fout,       \* what the calculation returned
    oreq,       \* the get_options_data call: [symbol, expiration]
    ostep,      \* the point get_options_data has reached
    oprov,      \* what the provider gave get_options_data so far
    ocalls,     \* the option chains queried so far, in order
    oout        \* the dict get_options_data returned

calcVars == <<cjob, cstep, cprov, cout>>

batchVars == <<req, pc, futures, results, ret, pool, created, shutdown>>

pureVars == <<fin, fat, fout>>

optVars == <<oreq, ostep, oprov, ocalls, oout>>

vars == <<cjob, cstep, cprov, cout, req, pc, futures, results, ret, pool, created, shutdown,
          fin, fat, fout, oreq, ostep, oprov, ocalls, oout>>

\* The calculations and get_options_data before anything is applied.
NoArg == [none |-> TRUE]
PureIdle ==
    /\ fin = NoArg
    /\ fat = "idle"
    /\ fout = NoArg

OptIdle ==
    /\ oreq = NoArg
    /\ ostep = "idle"
    /\ oprov = NoArg
    /\ ocalls = <<>>
    /\ oout = NoArg

\* -------------------------------------- a single-symbol job, call by call
CalcSymbols == {"^GSPC", "ES=F"}
CalcFns == {"get_ticker_data", "get_ticker_full_data", "calculate_momentum"}
NoJob == [fn |-> "", symbol |-> "", include_momentum |-> FALSE]
NoOut == [symbol |-> ""]
NoCalls == [info |-> [ok |-> TRUE, regularMarketPrice |-> None, currentPrice |-> None,
                      regularMarketChangePercent |-> None],
            fast |-> [ok |-> TRUE, lastPrice |-> None, previousClose |-> None],
            mom |-> NoMomentumCalls]

CalcInit ==
    /\ cjob = NoJob
    /\ cstep = "idle"
    /\ cprov = NoCalls
    /\ cout = NoOut

\* The first provider call of each job.
FirstStep(fn, symbol) ==
    CASE fn = "get_ticker_data" -> "info"
      [] fn = "get_ticker_full_data" -> IF is_futures(symbol) THEN "info" ELSE "fast"
      [] OTHER -> "mfast"

CallsMomentum(job) ==
    \/ job.fn = "get_ticker_full_data"
    \/ job.fn = "calculate_momentum"
    \/ job.fn = "get_ticker_data" /\ job.include_momentum

StartJob(fn, symbol, include_momentum) ==
    /\ cstep = "idle"
    /\ fn = "get_ticker_data" \/ ~include_momentum
    /\ cjob' = [fn |-> fn, symbol |-> symbol, include_momentum |-> include_momentum]
    /\ cstep' = FirstStep(fn, symbol)
    /\ UNCHANGED <<cprov, cout>>
    /\ UNCHANGED <<batchVars, pureVars, optVars>>

\* info = ticker.info
CallInfo ==
    /\ cstep = "info"
    /\ \E r \in Infos :
        /\ cprov' = [cprov EXCEPT !.info = r]
        /\ cstep' = IF r.ok /\ CallsMomentum(cjob) THEN "mfast" ELSE "apply"
    /\ UNCHANGED <<cjob, cout>>
    /\ UNCHANGED <<batchVars, pureVars, optVars>>

\* ticker.fast_info.get("lastPrice"), ticker.fast_info.get("previousClose")
CallFastInfo ==
    /\ cstep = "fast"
    /\ \E r \in FastInfos :
        /\ cprov' = [cprov EXCEPT !.fast = r]
        /\ cstep' = IF r.ok THEN "mfast" ELSE "apply"
    /\ UNCHANGED <<cjob, cout>>
    /\ UNCHANGED <<batchVars, pureVars, optVars>>

\* calculate_momentum: current_price = ticker.fast_info.get("lastPrice")
CallMomentumFastInfo ==
    /\ cstep = "mfast"
    /\ \E r \in FastInfos :
        /\ r.previousClose = None
        /\ cprov' = [cprov EXCEPT !.mom.fast = r]
        /\ cstep' = IF r.ok /\ r.lastPrice # None THEN "a1y" ELSE "apply"
    /\ UNCHANGED <<cjob, cout>>
    /\ UNCHANGED <<batchVars, pureVars, optVars>>

\* calculate_momentum: price_h_ago = fetch_price_at_date(symbol, date_h_ago)
FetchAnchor ==
    /\ cstep \in {"a1y", "a1m", "a1w"}
    /\ \E w \in Windows :
        cprov' = [cprov EXCEPT !.mom[cstep] =
                     [ok |-> w.ok, closes |-> ClosePrices(w), price |-> fetch_price_at_date(w)]]
    /\ cstep' = CASE cstep = "a1y" -> "a1m" [] cstep = "a1m" -> "a1w" [] OTHER -> "apply"
    /\ UNCHANGED <<cjob, cout>>
    /\ UNCHANGED <<batchVars, pureVars, optVars>>

ReturnJob ==
    /\ cstep = "apply"
    /\ cout' = CASE cjob.fn = "get_ticker_data" ->
                        get_ticker_data(cjob.symbol, cjob.include_momentum, cprov)
                 [] cjob.fn = "get_ticker_full_data" ->
                        get_ticker_full_data(cjob.symbol, cprov)
                 [] OTHER -> calculate_momentum(cprov.mom)
    /\ cstep' = "done"
    /\ UNCHANGED <<cjob, cprov>>
    /\ UNCHANGED <<batchVars, pureVars, optVars>>

CalcNext ==
    \/ \E fn \in CalcFns, s \in CalcSymbols, m \in BOOLEAN : StartJob(fn, s, m)
    \/ CallInfo
    \/ CallFastInfo
    \/ CallMomentumFastInfo
    \/ FetchAnchor
    \/ ReturnJob

\* ------------------------------------------------------- the batch calls
Calls == 1..NumCalls

EmptyDict == [k \in {} |-> None]

\* d[k] = v
Put(d, k, v) == [x \in DOMAIN d \cup {k} |-> IF x = k THEN v ELSE d[x]]

\* Mutant: a name that is a symbol key and no category is dropped too.
RECURSIVE SymbolsToFetchCategoriesOnly(_)
SymbolsToFetchCategoriesOnly(categories) ==
    IF categories = <<>> THEN <<>>
    ELSE LET category == lower(Head(categories))
             found == IF category \in DOMAIN CATEGORY_MAPPING THEN CATEGORY_MAPPING[category]
                      ELSE <<>>
         IN  found \o SymbolsToFetchCategoriesOnly(Tail(categories))

\* get_market_snapshot: the keys named by the requested categories.
RECURSIVE symbols_to_fetch(_)
symbols_to_fetch(categories) ==
    IF categories = <<>> THEN <<>>
    ELSE LET category == lower(Head(categories))
             found == IF category \in DOMAIN CATEGORY_MAPPING THEN CATEGORY_MAPPING[category]
                      ELSE IF category \in DOMAIN MARKET_SYMBOLS THEN <<category>>
                      ELSE <<>>
         IN  found \o symbols_to_fetch(Tail(categories))

\* get_market_snapshot: the (key, symbol) pairs of the keys that have a symbol.
RECURSIVE fetch_list(_)
fetch_list(keys) ==
    IF keys = <<>> THEN <<>>
    ELSE IF Head(keys) \in DOMAIN MARKET_SYMBOLS
         THEN <<[key |-> Head(keys), symbol |-> MARKET_SYMBOLS[Head(keys)]]>>
              \o fetch_list(Tail(keys))
         ELSE fetch_list(Tail(keys))

Min(a, b) == IF a < b THEN a ELSE b

\* The (key, symbol) pairs a call submits, in submission order.
SubmittedJobs(r) ==
    CASE r.op = "get_market_snapshot" -> fetch_list(symbols_to_fetch(r.categories))
      [] r.op = "get_markets_data" ->
            SubSeq(markets_symbols_to_fetch, 1, Min(MaxJobs, Len(markets_symbols_to_fetch)))
      [] OTHER -> [i \in 1..Len(r.symbols) |-> [key |-> r.symbols[i], symbol |-> r.symbols[i]]]

\* Mutant: every executor is created ten wide, whatever max_workers says.
PoolWidthIgnoresMaxWorkers(r) == DefaultWidth

\* ThreadPoolExecutor(max_workers=...)
PoolWidth(r) == IF r.op = "fetch_multiple_histories" THEN r.max_workers ELSE DefaultWidth

SeqsUpTo(S, lo, hi) == UNION {[1..n -> S] : n \in lo..hi}

Requests ==
    {r \in [op : {"get_market_snapshot"}, categories : SeqsUpTo(Names, 1, MaxCats),
            show_momentum : BOOLEAN, symbols : {<<>>}, max_workers : {DefaultWidth}]
            \cup
           [op : {"get_markets_data"}, categories : {<<>>}, show_momentum : {FALSE},
            symbols : {<<>>}, max_workers : {DefaultWidth}]
            \cup
           [op : {"fetch_multiple_histories"}, categories : {<<>>}, show_momentum : {FALSE},
            symbols : SeqsUpTo(HistorySymbols, 0, MaxSyms), max_workers : 1..MaxWidth] :
        Len(SubmittedJobs(r)) <= MaxJobs}

NoRequest == [op |-> "", categories |-> <<>>, show_momentum |-> FALSE, symbols |-> <<>>,
              max_workers |-> 0]

\* What the provider gives one ticker job of a batch: every call fails, every
\* call succeeds, or the quote succeeds and the history windows fail.
ProviderFails ==
    [info |-> [ok |-> FALSE, regularMarketPrice |-> None, currentPrice |-> None,
               regularMarketChangePercent |-> None],
     fast |-> [ok |-> FALSE, lastPrice |-> None, previousClose |-> None],
     mom |-> [fast |-> [ok |-> FALSE, lastPrice |-> None, previousClose |-> None],
              a1y |-> [ok |-> FALSE, closes |-> 0, price |-> None],
              a1m |-> [ok |-> FALSE, closes |-> 0, price |-> None],
              a1w |-> [ok |-> FALSE, closes |-> 0, price |-> None]]]

ProviderSucceeds ==
    [info |-> [ok |-> TRUE, regularMarketPrice |-> Some(110), currentPrice |-> Some(100),
               regularMarketChangePercent |-> Some(<<1, 2>>)],
     fast |-> [ok |-> TRUE, lastPrice |-> Some(110), previousClose |-> Some(100)],
     mom |-> [fast |-> [ok |-> TRUE, lastPrice |-> Some(110), previousClose |-> None],
              a1y |-> [ok |-> TRUE, closes |-> 1, price |-> Some(100)],
              a1m |-> [ok |-> TRUE, closes |-> 1, price |-> Some(100)],
              a1w |-> [ok |-> TRUE, closes |-> 1, price |-> Some(100)]]]

ProviderQuoteOnly ==
    [ProviderSucceeds EXCEPT !.mom.a1y = [ok |-> FALSE, closes |-> 0, price |-> None],
                             !.mom.a1m = [ok |-> FALSE, closes |-> 0, price |-> None],
                             !.mom.a1w = [ok |-> FALSE, closes |-> 0, price |-> None]]

\* The provider's answers to one job of call r, each with a tag: "fail" (every
\* provider call of the job raises), "ok" (none does) or "partial".
ProviderAnswers(r) ==
    IF r.op = "fetch_multiple_histories"
    THEN {[tag |-> IF h.ok THEN "ok" ELSE "fail", answer |-> h] : h \in Histories}
    ELSE {[tag |-> "fail", answer |-> ProviderFails],
          [tag |-> "ok", answer |-> ProviderSucceeds]}
         \cup (IF r.op = "get_markets_data" \/ r.show_momentum
               THEN {[tag |-> "partial", answer |-> ProviderQuoteOnly]}
               ELSE {})

\* The function a call submits, applied to one job.
RunJob(r, job, p) ==
    CASE r.op = "get_market_snapshot" -> get_ticker_data(job.symbol, r.show_momentum, p)
      [] r.op = "get_markets_data" -> get_ticker_full_data(job.symbol, p)
      [] OTHER -> fetch_price_history(p)

NoValue == [none |-> TRUE]

NewFuture(job) ==
    [key |-> job.key, symbol |-> job.symbol, state |-> "pending", executor |-> 0,
     tag |-> "", raised |-> FALSE, value |-> NoValue, collected |-> FALSE]

Running(c) == {i \in 1..Len(futures[c]) : futures[c][i].state = "running"}
Pending(c) == {i \in 1..Len(futures[c]) : futures[c][i].state = "pending"}
Finished(c) == {i \in 1..Len(futures[c]) : futures[c][i].state = "finished"}
Uncollected(c) == {i \in 1..Len(futures[c]) : ~futures[c][i].collected}

RECURSIVE SumJobs(_)
SumJobs(n) == IF n = 0 THEN 0 ELSE Len(futures[n]) + SumJobs(n - 1)

BatchInit ==
    /\ req = [c \in Calls |-> NoRequest]
    /\ pc = [c \in Calls |-> "idle"]
    /\ futures = [c \in Calls |-> <<>>]
    /\ results = [c \in Calls |-> EmptyDict]
    /\ ret = [c \in Calls |-> None]
    /\ pool = [c \in Calls |-> 0]
    /\ created = 0
    /\ shutdown = {}

\* Mutant: one process-wide executor serves every call.
SharedExecutor(n) == 1

\* ThreadPoolExecutor(...): a new executor, the n-th the process creates.
NewExecutor(n) == n

\* A batch call up to the end of its submit loop: the executor is created and
\* every job submitted.  Call 1 takes any request; a later call re-issues it,
\* while the jobs of all calls together stay within MaxShared.
Invoke(c, r) ==
    /\ pc[c] = "idle"
    /\ IF c = 1 THEN TRUE ELSE pc[c - 1] # "idle" /\ r = req[1]
    /\ c > 1 => SumJobs(NumCalls) + Len(SubmittedJobs(r)) <= MaxShared
    /\ req' = [req EXCEPT ![c] = r]
    /\ created' = created + 1
    /\ pool' = [pool EXCEPT ![c] = NewExecutor(created + 1)]
    /\ futures' = [futures EXCEPT ![c] =
                      [i \in 1..Len(SubmittedJobs(r)) |-> NewFuture(SubmittedJobs(r)[i])]]
    /\ results' = [results EXCEPT ![c] = EmptyDict]
    /\ pc' = [pc EXCEPT ![c] = "collecting"]
    /\ UNCHANGED <<ret, shutdown>>
    /\ UNCHANGED <<calcVars, pureVars, optVars>>

\* The executor of call c has fewer than max_workers jobs in progress.
HasFreeWorker(c) == Cardinality(Running(c)) < PoolWidth(req[c])

\* A worker thread of call c's executor takes the oldest queued work item.
Start(c) ==
    /\ pc[c] = "collecting"
    /\ Pending(c) # {}
    /\ HasFreeWorker(c)
    /\ LET i == CHOOSE i \in Pending(c) : \A j \in Pending(c) : i <= j
       IN  futures' = [futures EXCEPT ![c][i].state = "running",
                                      ![c][i].executor = pool[c]]
    /\ UNCHANGED <<req, pc, results, ret, pool, created, shutdown>>
    /\ UNCHANGED <<calcVars, pureVars, optVars>>

\* Job i of call c runs to its end against the provider and sets its future.
Finish(c, i) ==
    /\ i \in Running(c)
    /\ \E p \in ProviderAnswers(req[c]) :
        futures' = [futures EXCEPT ![c][i].state = "finished",
                                   ![c][i].tag = p.tag,
                                   ![c][i].value = RunJob(req[c], futures[c][i], p.answer)]
    /\ UNCHANGED <<req, pc, results, ret, pool, created, shutdown>>
    /\ UNCHANGED <<calcVars, pureVars, optVars>>

\* except Exception: the entry a raising future gets.
OnException(r, key) ==
    IF r.op = "fetch_multiple_histories" THEN EmptyDataFrame
    ELSE [symbol |-> key, error |-> ProviderError]

\* Mutant: a job that produced nothing gets no entry.
StoreSkipsEmpty(r, d, f) ==
    IF f.value = EmptyDataFrame THEN d ELSE Put(d, f.key, f.value)

\* Mutant: the entry is stored under the job's symbol instead of its key.
StoreUnderSymbol(r, d, f) == Put(d, f.symbol, f.value)

\* results[key] = future.result(), or the except branch's entry.
Store(r, d, f) == Put(d, f.key, IF f.raised THEN OnException(r, f.key) ELSE f.value)

\* One round of the as_completed loop: a finished future is yielded and its
\* result stored under its key.
Collect(c, i) ==
    /\ pc[c] = "collecting"
    /\ i \in Finished(c)
    /\ ~futures[c][i].collected
    /\ results' = [results EXCEPT ![c] = Store(req[c], results[c], futures[c][i])]
    /\ futures' = [futures EXCEPT ![c][i].collected = TRUE]
    /\ UNCHANGED <<req, pc, ret, pool, created, shutdown>>
    /\ UNCHANGED <<calcVars, pureVars, optVars>>

\* Mutant: the loop stops while one future is still to come.
LoopEndsEarly(c) == Cardinality(Uncollected(c)) <= 1

\* as_completed has yielded every future of future_to_key.
LoopDone(c) == Uncollected(c) = {}

\* executor.shutdown(wait=True)
ShutDown(s, e) == s \cup {e}

\* The end of the with block and `return results`.
Return(c) ==
    /\ pc[c] = "collecting"
    /\ LoopDone(c)
    /\ Running(c) = {}                     \* __exit__ joins the worker threads
    /\ shutdown' = ShutDown(shutdown, pool[c])
    /\ ret' = [ret EXCEPT ![c] = Some(results[c])]
    /\ pc' = [pc EXCEPT ![c] = "returned"]
    /\ UNCHANGED <<req, futures, results, pool, created>>
    /\ UNCHANGED <<calcVars, pureVars, optVars>>

Init == CalcInit /\ BatchInit /\ PureIdle /\ OptIdle

Next ==
    \/ \E c \in Calls, r \in Requests : Invoke(c, r)
    \/ \E c \in Calls : Start(c)
    \/ \E c \in Calls, i \in 1..MaxJobs : Finish(c, i)
    \/ \E c \in Calls, i \in 1..MaxJobs : Collect(c, i)
    \/ \E c \in Calls : Return(c)

Spec == Init /\ [][Next]_vars

\* A step of a worker thread or of a calling thread.
Progress ==
    \E c \in Calls :
        \/ Start(c)
        \/ Return(c)
        \/ \E i \in 1..MaxJobs : Finish(c, i) \/ Collect(c, i)

\* The scheduler keeps running a thread that can take a step, and every job
\* that runs terminates; nothing obliges a caller to make a call.
Fairness == WF_vars(Progress)

FairSpec == Init /\ [][Next]_vars /\ Fairness

CalcStart == CalcInit /\ BatchInit /\ PureIdle /\ OptIdle

SpecCalc == CalcStart /\ [][CalcNext]_vars

\* ------------------------------------------- one calculation on its input
\* A calculation is given an argument the caller or the provider can supply
\* and is applied to it once.
Given(fn, args) ==
    /\ CalcInit /\ BatchInit /\ OptIdle
    /\ fin \in [fn : {fn}, arg : args]
    /\ fat = "input"
    /\ fout = NoArg

Applied(fn, result) ==
    /\ fat = "input"
    /\ fin.fn = fn
    /\ fout' = result
    /\ fat' = "done"
    /\ UNCHANGED <<fin, calcVars, batchVars, optVars>>

\* fetch_price_at_date(symbol, target_date) on the window the provider returns.
PriceInit == Given("fetch_price_at_date", Windows)
ApplyFetchPriceAtDate == Applied("fetch_price_at_date", fetch_price_at_date(fin.arg))
PriceNext == ApplyFetchPriceAtDate
SpecPrice == PriceInit /\ [][PriceNext]_vars

\* calculate_idio_vol(symbol) on the two histories the provider returns.
VolInit ==
    Given("calculate_idio_vol", [ticker : DailyHistories, market : DailyHistories,
                                 fit_ok : BOOLEAN])
ApplyCalculateIdioVol ==
    Applied("calculate_idio_vol",
            calculate_idio_vol(fin.arg.ticker, fin.arg.market, fin.arg.fit_ok))
VolNext == ApplyCalculateIdioVol
SpecVol == VolInit /\ [][VolNext]_vars

\* calculate_rsi(prices, period)
RsiInit == Given("calculate_rsi", [prices : PriceSeries, period : Periods])
ApplyCalculateRsi == Applied("calculate_rsi", calculate_rsi(fin.arg.prices, fin.arg.period))
RsiNext == ApplyCalculateRsi
SpecRsi == RsiInit /\ [][RsiNext]_vars

\* A normalizer on a symbol, and once more on the string it returned.
SymbolInit == Given("normalize", [impl : Normalizers, symbol : Symbols])
ApplyNormalize ==
    Applied("normalize", [out |-> Normalize(fin.arg.impl, fin.arg.symbol), again |-> None])
ApplyNormalizeAgain ==
    /\ fat = "done"
    /\ fin.fn = "normalize"
    /\ fout.out # None
    /\ fout' = [fout EXCEPT !.again = Normalize(fin.arg.impl, Val(fout.out))]
    /\ fat' = "again"
    /\ UNCHANGED <<fin, calcVars, batchVars, optVars>>
SymbolNext == ApplyNormalize \/ ApplyNormalizeAgain
SpecSymbol == SymbolInit /\ [][SymbolNext]_vars

\* get_sector_data(name)
SectorInit == Given("get_sector_data", SectorNames)
ApplyGetSectorData == Applied("get_sector_data", get_sector_data(fin.arg))
SectorNext == ApplyGetSectorData
SpecSector == SectorInit /\ [][SectorNext]_vars

\* ------------------------------------------------- a get_options_data call
\* The call is made; the provider's answers for its duration are settled.
CallGetOptionsData(symbol, expiration, w) ==
    /\ ostep = "idle"
    /\ oreq' = [symbol |-> symbol, expiration |-> expiration]
    /\ oprov' = w
    /\ ostep' = "called"
    /\ UNCHANGED <<ocalls, oout>>
    /\ UNCHANGED <<calcVars, batchVars, pureVars>>

\* The call runs to its return.
ReturnGetOptionsData ==
    /\ ostep = "called"
    /\ LET run == get_options_data_run(oreq.symbol, oreq.expiration, oprov)
       IN  /\ oout' = run.out
           /\ ocalls' = run.calls
    /\ ostep' = "done"
    /\ UNCHANGED <<oreq, oprov>>
    /\ UNCHANGED <<calcVars, batchVars, pureVars>>

OptNext ==
    \/ /\ ostep = "idle"
       /\ \E symbol \in OptionSymbols, expiration \in Expirations,
             w \in ListingWorlds \cup ChainWorlds \cup PositionWorlds \cup HistoryWorlds :
               CallGetOptionsData(symbol, expiration, w)
    \/ ReturnGetOptionsData

SpecOptions == Init /\ [][OptNext]_vars

\* ------------------------------------------------------------------ claims
Returned(c) == pc[c] = "returned"
JobIndexes(c) == 1..Len(futures[c])
Keys(c) == {futures[c][i].key : i \in JobIndexes(c)}
JobsOf(c, k) == {i \in JobIndexes(c) : futures[c][i].key = k}
HasError(rec) == "error" \in DOMAIN rec
TickerOps == {"get_market_snapshot", "get_markets_data"}

\* Key K's provider calls always fail and those of every other key succeed.
OnlyKeyFails(c, K) ==
    \A i \in JobIndexes(c) :
        futures[c][i].tag = IF futures[c][i].key = K THEN "fail" ELSE "ok"

\* C1: when get_market_snapshot or get_markets_data returns and the provider
\* failed for exactly one of the N requested keys, K, and succeeded for the
\* others, the returned mapping has one entry per requested key (N entries)
\* and K's entry is the only one with an "error" field, whatever the order in
\* which the workers completed.
C1_OnlyFailingKeyTagged ==
    \A c \in Calls :
        (Returned(c) /\ req[c].op \in TickerOps) =>
            \A K \in Keys(c) :
                OnlyKeyFails(c, K) =>
                    LET d == Val(ret[c])
                    IN  /\ DOMAIN d = Keys(c)
                        /\ Cardinality(DOMAIN d) = Cardinality(Keys(c))
                        /\ {k \in DOMAIN d : HasError(d[k])} = {K}

C1_Witness ==
    \E c \in Calls :
        /\ Returned(c)
        /\ req[c].op = "get_markets_data"
        /\ Cardinality(Keys(c)) >= 3
        /\ \E K \in Keys(c) : OnlyKeyFails(c, K)

\* C2: when fetch_multiple_histories returns, the result has an entry for
\* every requested symbol and for nothing else, the entry of a symbol is what
\* a fetch of that very symbol returned, and a symbol whose fetch failed maps
\* to the empty frame.
C2_NoSymbolLost ==
    \A c \in Calls :
        (Returned(c) /\ req[c].op = "fetch_multiple_histories") =>
            LET d == Val(ret[c])
            IN  /\ DOMAIN d = {req[c].symbols[i] : i \in 1..Len(req[c].symbols)}
                /\ \A s \in DOMAIN d :
                    /\ d[s] \in {futures[c][i].value : i \in JobsOf(c, s)}
                    /\ (\A i \in JobsOf(c, s) : futures[c][i].tag = "fail")
                          => d[s] = EmptyDataFrame

C2_Witness ==
    \E c \in Calls :
        /\ Returned(c)
        /\ req[c].op = "fetch_multiple_histories"
        /\ \E i, j \in JobIndexes(c) :
            /\ futures[c][i].key # futures[c][j].key
            /\ futures[c][i].tag = "fail"
            /\ Val(ret[c])[futures[c][i].key] = EmptyDataFrame
            /\ Val(ret[c])[futures[c][j].key].rows # <<>>

TickerJobDone == cstep = "done" /\ cjob.fn \in {"get_ticker_data", "get_ticker_full_data"}

\* The quote call the job makes itself: ticker.info, or ticker.fast_info.
QuoteCallFailed == ~cprov.info.ok \/ ~cprov.fast.ok

\* A provider call made inside calculate_momentum.
MomentumCallFailed ==
    \/ ~cprov.mom.fast.ok
    \/ ~cprov.mom.a1y.ok
    \/ ~cprov.mom.a1m.ok
    \/ ~cprov.mom.a1w.ok

\* C3 as stated: the record of get_ticker_data / get_ticker_full_data keeps the
\* symbol, and when any provider call inside the job fails it carries an
\* "error" field instead of price data.
C3_AnyFailureIsError ==
    TickerJobDone =>
        /\ cout.symbol = cjob.symbol
        /\ (QuoteCallFailed \/ MomentumCallFailed) =>
              (HasError(cout) /\ "price" \notin DOMAIN cout)

\* C3 as amended: the record keeps the symbol; it carries an "error" field
\* instead of price data exactly when the job's own quote call fails; a failure
\* inside calculate_momentum is absorbed: no error field, price data kept, and
\* the momentum values the record has are absent where their call failed.
C3_QuoteFailureIsError ==
    TickerJobDone =>
        /\ cout.symbol = cjob.symbol
        /\ HasError(cout) <=> QuoteCallFailed
        /\ HasError(cout) => DOMAIN cout = {"symbol", "error"}
        /\ ~HasError(cout) => {"price", "change_percent"} \subseteq DOMAIN cout
        /\ (~QuoteCallFailed /\ "momentum_1m" \in DOMAIN cout) =>
              /\ (~cprov.mom.fast.ok \/ ~cprov.mom.a1m.ok) => cout.momentum_1m = None
              /\ (~cprov.mom.fast.ok \/ ~cprov.mom.a1y.ok) => cout.momentum_1y = None

C3_Witness ==
    /\ TickerJobDone
    /\ cjob.fn = "get_ticker_full_data"
    /\ ~QuoteCallFailed
    /\ ~cprov.mom.a1y.ok
    /\ cprov.mom.a1m.price # None
    /\ ~HasError(cout)
    /\ cout.price # None
    /\ cout.momentum_1y = None

\* The mapping a call returns when its futures complete in submission order.
RECURSIVE AssembleInOrder(_, _, _)
AssembleInOrder(r, fs, n) ==
    IF n = 0 THEN EmptyDict
    ELSE Put(AssembleInOrder(r, fs, n - 1), fs[n].key, fs[n].value)

\* C4: the mapping a batch call returns depends only on the outcomes of its
\* jobs, not on the order they complete in: it is the mapping of the execution
\* in which the same outcomes arrive in submission order.
C4_OrderIndependent ==
    \A c \in Calls :
        Returned(c) => Val(ret[c]) = AssembleInOrder(req[c], futures[c], Len(futures[c]))

\* C5: no two jobs submitted by one batch call write their result under the
\* same key.
C5_ExclusiveSlots ==
    \A c \in Calls :
        \A i, j \in JobIndexes(c) : i # j => futures[c][i].key # futures[c][j].key

\* C6: a batch call that has submitted its jobs eventually returns (no call
\* stays inside its with block for ever), and when it has returned every
\* submitted job has finished and its result has been collected into the
\* returned mapping; no job is dropped.
C6_RunsToCompletion ==
    /\ []<>(\A c \in Calls : pc[c] # "collecting")
    /\ [](\A c \in Calls :
            Returned(c) =>
                /\ Len(futures[c]) = Len(SubmittedJobs(req[c]))
                /\ \A i \in JobIndexes(c) :
                    /\ futures[c][i].state = "finished"
                    /\ futures[c][i].collected
                    /\ futures[c][i].key \in DOMAIN Val(ret[c]))

C6_Witness ==
    \E c \in Calls :
        /\ Returned(c)
        /\ Len(futures[c]) >= 3
        /\ \E i \in JobIndexes(c) : futures[c][i].tag = "fail"
        /\ \E i \in JobIndexes(c) : futures[c][i].tag = "ok"

\* One job of call c is still running and every sibling has been collected.
OnlySlowJobLeft(c) ==
    /\ pc[c] = "collecting"
    /\ Len(futures[c]) >= 2
    /\ Cardinality(Running(c)) = 1
    /\ \A i \in JobIndexes(c) : i \notin Running(c) => futures[c][i].collected

\* C7 as stated: when one job is still running and every sibling has
\* completed, the call can hand the sibling results to its caller.
C7_SiblingsNotHeldBack ==
    \A c \in Calls : OnlySlowJobLeft(c) => ENABLED Return(c)

\* C7 as amended: the sibling results are stored in the call-local mapping as
\* they complete, but the caller receives nothing while any job of the call
\* is still queued or running.
C7_SlowJobHoldsBatch ==
    \A c \in Calls :
        /\ (Running(c) # {} \/ Pending(c) # {}) => ret[c] = None
        /\ \A i \in JobIndexes(c) :
              futures[c][i].collected => futures[c][i].key \in DOMAIN results[c]

C7_Witness ==
    \E c \in Calls :
        /\ OnlySlowJobLeft(c)
        /\ ret[c] = None
        /\ DOMAIN results[c] # {}

Invoked(c) == pc[c] # "idle"

\* C8: every batch call creates an executor of its own, its jobs run on that
\* executor only, the executor stays up while the call collects, and when the
\* call returns the executor has been shut down and none of its jobs is
\* queued or running.
C8_PoolScopedPerCall ==
    \A c \in Calls :
        /\ Invoked(c) => pool[c] # 0
        /\ \A d \in Calls : (Invoked(c) /\ Invoked(d) /\ c # d) => pool[c] # pool[d]
        /\ \A i \in JobIndexes(c) :
              futures[c][i].state # "pending" => futures[c][i].executor = pool[c]
        /\ pc[c] = "collecting" => pool[c] \notin shutdown
        /\ Returned(c) => (pool[c] \in shutdown /\ Running(c) = {} /\ Pending(c) = {})

C8_Witness ==
    \E c, d \in Calls :
        /\ c # d
        /\ Returned(c)
        /\ Running(d) # {}

\* The width the claim gives each call's pool.
ClaimedWidth(c) ==
    IF req[c].op = "fetch_multiple_histories" THEN req[c].max_workers ELSE 10

\* C9: at every moment at most `width` jobs of a call are executing (10, or
\* max_workers for fetch_multiple_histories), and every job that waits for a
\* worker is eventually started (no job stays queued for ever).
C9_WidthBoundsConcurrency ==
    /\ [](\A c \in Calls : Cardinality(Running(c)) <= ClaimedWidth(c))
    /\ []<>(\A c \in Calls : Pending(c) = {})

C9_Witness ==
    \E c \in Calls :
        /\ Cardinality(Running(c)) = ClaimedWidth(c)
        /\ Pending(c) # {}

MomentumDone ==
    /\ cstep = "done"
    /\ cjob.fn = "calculate_momentum"
    /\ cprov.mom.fast.ok
    /\ cprov.mom.fast.lastPrice # None

\* Horizon h's value m is (current - anchor) / anchor * 100, or absent when
\* the anchor is absent or zero.
HorizonIs(m, current, anchor) ==
    IF anchor = None \/ anchor = Some(0) THEN m = None
    ELSE /\ m # None
         /\ Val(m)[2] > 0
         /\ Val(m)[1] * Val(anchor) = (current - Val(anchor)) * 100 * Val(m)[2]

\* C10: with a current price, each horizon's momentum is
\* (current - anchor_h) / anchor_h * 100 when its own anchor is resolved and
\* non-zero and absent otherwise, whatever the other anchors are; current 110
\* with a 1-month anchor of 100 gives momentum_1m = 10.
C10_MomentumPerHorizon ==
    MomentumDone =>
        LET current == Val(cprov.mom.fast.lastPrice)
        IN  /\ HorizonIs(cout.momentum_1w, current, cprov.mom.a1w.price)
            /\ HorizonIs(cout.momentum_1m, current, cprov.mom.a1m.price)
            /\ HorizonIs(cout.momentum_1y, current, cprov.mom.a1y.price)
            /\ (current = 110 /\ cprov.mom.a1m.price = Some(100))
                  => cout.momentum_1m = Some(<<10, 1>>)

C10_Witness ==
    /\ MomentumDone
    /\ cprov.mom.fast.lastPrice = Some(110)
    /\ cprov.mom.a1y.price = None
    /\ cprov.mom.a1m.price = Some(100)
    /\ cprov.mom.a1w.price = Some(100)
    /\ cout.momentum_1m = Some(<<10, 1>>)
    /\ cout.momentum_1w = Some(<<10, 1>>)
    /\ cout.momentum_1y = None

\* calculate_momentum has returned.
MomentumReturned == cstep = "done" /\ cjob.fn = "calculate_momentum"

Horizons == {"1w", "1m", "1y"}
AnchorOf(h) == CASE h = "1w" -> cprov.mom.a1w [] h = "1m" -> cprov.mom.a1m [] OTHER -> cprov.mom.a1y
MomentumOf(h) ==
    CASE h = "1w" -> cout.momentum_1w [] h = "1m" -> cout.momentum_1m [] OTHER -> cout.momentum_1y

\* C11 as stated: when the provider returned zero or one close price for each
\* of the symbol's lookback windows, the momentum of every horizon is absent.
C11_FewerThanTwoPointsAbsent ==
    (MomentumReturned /\ \A h \in Horizons : AnchorOf(h).closes <= 1) =>
        \A h \in Horizons : MomentumOf(h) = None

\* C11 as amended: a horizon whose lookback window returned no close price
\* has an absent momentum, never zero and never a computed number; a window
\* with a single non-zero close price resolves the anchor, and with a current
\* price the momentum of that horizon is the return computed from it.
C11_NoClosePriceNoMomentum ==
    MomentumReturned =>
        \A h \in Horizons :
            /\ AnchorOf(h).closes = 0 => MomentumOf(h) = None
            /\ (/\ AnchorOf(h).closes = 1
                /\ AnchorOf(h).price \notin {None, Some(0)}
                /\ cprov.mom.fast.ok
                /\ cprov.mom.fast.lastPrice # None)
                  => MomentumOf(h) =
                        Some(PercentChange(Val(cprov.mom.fast.lastPrice), Val(AnchorOf(h).price)))

C11_Witness ==
    /\ MomentumReturned
    /\ cprov.mom.fast.lastPrice = Some(110)
    /\ cprov.mom.a1w.ok /\ cprov.mom.a1w.closes = 0
    /\ cout.momentum_1w = None
    /\ cprov.mom.a1m.closes = 1
    /\ cout.momentum_1m = Some(<<10, 1>>)
    /\ cprov.mom.a1y.closes = 1

PriceDone == fat = "done" /\ fin.fn = "fetch_price_at_date"

\* The rows of window w that carry a close price.
WithClose(w) == {i \in 1..Len(w.rows) : w.rows[i].close # None}

\* C12: fetch_price_at_date returns, among the non-missing close prices of
\* the window, one whose timestamp has the least absolute distance to the
\* target date, and an absent value when the fetch fails or the window holds
\* no close price.
C12_NearestMatch ==
    PriceDone =>
        LET w == fin.arg
        IN  IF ~w.ok \/ WithClose(w) = {} THEN fout = None
            ELSE \E i \in WithClose(w) :
                    /\ fout = w.rows[i].close
                    /\ \A j \in WithClose(w) : Abs(w.rows[i].off) <= Abs(w.rows[j].off)

\* The nearest close price is not the first one of the window.
C12_Witness ==
    /\ PriceDone
    /\ fin.arg.ok
    /\ Cardinality(WithClose(fin.arg)) >= 2
    /\ LET first == CHOOSE i \in WithClose(fin.arg) : \A j \in WithClose(fin.arg) : i <= j
       IN  /\ fout # fin.arg.rows[first].close
           /\ \E j \in WithClose(fin.arg) :
                 Abs(fin.arg.rows[j].off) < Abs(fin.arg.rows[first].off)

VolDone == fat = "done" /\ fin.fn = "calculate_idio_vol"

\* The days on which both the ticker and the market have an observation.
Overlap == history_index(fin.arg.ticker) \cap history_index(fin.arg.market)

\* The days on which both have a daily return.
AlignedReturns ==
    returns_index(history_index(fin.arg.ticker)) \cap returns_index(history_index(fin.arg.market))

BothPresent == fout.idio_vol # None /\ fout.total_vol # None
NeitherPresent == fout.idio_vol = None /\ fout.total_vol = None

\* C13 as stated: idio_vol and total_vol are both present when the two
\* series have at least 30 overlapping daily observations and both absent
\* otherwise (checked where the regression completes).
C13_ThirtyObservations ==
    (VolDone /\ fin.arg.fit_ok) =>
        IF Cardinality(Overlap) >= 30 THEN BothPresent ELSE NeitherPresent

\* C13 as amended: idio_vol and total_vol are both present when the daily
\* returns of the two series share at least 30 dates and the regression
\* completes, and both absent otherwise (empty series and fetch failure
\* included); never is one present and the other absent.
C13_ThirtyAlignedReturns ==
    VolDone =>
        /\ BothPresent \/ NeitherPresent
        /\ BothPresent <=> (Cardinality(AlignedReturns) >= 30 /\ fin.arg.fit_ok)

\* Thirty overlapping observations give twenty-nine returns: both absent.
C13_Witness ==
    /\ VolDone
    /\ fin.arg.fit_ok
    /\ Cardinality(Overlap) = 30
    /\ Cardinality(AlignedReturns) = 29
    /\ NeitherPresent

RsiDone == fat = "done" /\ fin.fn = "calculate_rsi"

\* The changes between consecutive prices among the last `period` prices.
LastChanges ==
    LET n == Len(fin.arg.prices)
    IN  {i \in 2..n : i > n - fin.arg.period}

RECURSIVE SumUps(_), SumDowns(_)
SumUps(I) ==
    IF I = {} THEN 0
    ELSE LET i == CHOOSE x \in I : TRUE
             d == fin.arg.prices[i] - fin.arg.prices[i - 1]
         IN  (IF d > 0 THEN d ELSE 0) + SumUps(I \ {i})
SumDowns(I) ==
    IF I = {} THEN 0
    ELSE LET i == CHOOSE x \in I : TRUE
             d == fin.arg.prices[i] - fin.arg.prices[i - 1]
         IN  (IF d < 0 THEN -d ELSE 0) + SumDowns(I \ {i})

\* fout is a number between 0 and 100.
RsiInRange ==
    /\ fout # None
    /\ Val(fout)[2] > 0
    /\ 0 <= Val(fout)[1]
    /\ Val(fout)[1] <= 100 * Val(fout)[2]

\* C14 as stated: with fewer than period prices the result is absent, and
\* with at least period prices it is a number between 0 and 100.
C14_PeriodPricesGiveRsi ==
    RsiDone =>
        IF Len(fin.arg.prices) < fin.arg.period THEN fout = None ELSE RsiInRange

\* C14 as amended: with fewer than period prices the result is absent; with
\* at least period prices it is the most recent RSI, 100 * gains / (gains +
\* losses) over the last period prices, a number between 0 and 100, unless no
\* price changed over the last period prices, and then it is absent.
C14_RsiUnlessFlat ==
    RsiDone =>
        LET ups == SumUps(LastChanges)
            downs == SumDowns(LastChanges)
        IN  IF Len(fin.arg.prices) < fin.arg.period \/ ups + downs = 0 THEN fout = None
            ELSE /\ RsiInRange
                 /\ Val(fout)[1] * (ups + downs) = 100 * ups * Val(fout)[2]

\* Exactly RSI_PERIOD prices that rise and fall give an RSI strictly inside
\* the range.
C14_Witness ==
    /\ RsiDone
    /\ fin.arg.period = RSI_PERIOD
    /\ Len(fin.arg.prices) = RSI_PERIOD
    /\ RsiInRange
    /\ 0 < Val(fout)[1] /\ Val(fout)[1] < 100 * Val(fout)[2]

\* get_options_data has returned; it returned analytics rather than an error.
OptDone == ostep = "done"
Analysed == OptDone /\ "error" \notin DOMAIN oout
OnlyError == OptDone /\ DOMAIN oout = {"error"}
Listed == oprov.options.dates

\* C15: with "nearest" the first listed expiration is the chain queried and
\* analysed; with a listed date, that date is; with a date that is not listed,
\* or with nothing listed, the call returns an error and nothing else, having
\* queried no option chain.
C15_ExpirationSelection ==
    (OptDone /\ oprov.options.ok) =>
        LET chosen ==
                IF Listed = <<>> THEN None
                ELSE IF oreq.expiration = "nearest" THEN Some(Listed[1])
                ELSE IF InSeq(oreq.expiration, Listed) THEN Some(oreq.expiration)
                ELSE None
        IN  IF chosen = None THEN OnlyError /\ ocalls = <<>>
            ELSE /\ ocalls # <<>>
                 /\ ocalls[1] = Val(chosen)
                 /\ Analysed => oout.expiration = Val(chosen)
                 /\ ~Analysed => OnlyError

\* A date that is not listed is refused although other dates are listed.
C15_Witness ==
    /\ OptDone
    /\ oprov.options.ok
    /\ Len(Listed) >= 2
    /\ oreq.expiration = UnlistedDate
    /\ oout = [error |-> <<"Expiration not available", UnlistedDate>>]
    /\ ocalls = <<>>

\* The chain get_options_data analysed and the price it used.
TheCalls == oprov.chains[oout.expiration].calls
ThePuts == oprov.chains[oout.expiration].puts
ThePrice == Val(oprov.fast.lastPrice)

\* C16: the reported ATM strike is a listed strike of the chain, and no call
\* or put strike of the chosen expiration is nearer the current price.
C16_AtmOverAllStrikes ==
    Analysed =>
        /\ oout.atm_strike \in StrikesOf(TheCalls) \cup StrikesOf(ThePuts)
        /\ \A k \in StrikesOf(TheCalls) \cup StrikesOf(ThePuts) :
              Abs(oout.atm_strike - ThePrice) <= Abs(k - ThePrice)

\* The sum of a column over a set of rows.
RECURSIVE SumOver(_, _, _)
SumOver(rows, I, col) ==
    IF I = {} THEN 0
    ELSE LET i == CHOOSE x \in I : TRUE
         IN  (IF col # "volume" THEN rows[i][col]
              ELSE IF rows[i].volume = None THEN 0
              ELSE Val(rows[i].volume))
             + SumOver(rows, I \ {i}, col)
All(rows) == 1..Len(rows)

\* r is the quotient put / call, or 0 when call is 0.
IsRatio(r, put, call) ==
    IF call > 0 THEN r[2] > 0 /\ r[1] * call = put * r[2] ELSE r = <<0, 1>>

\* The call gets past the chain: both sides listed, a price, a put at the ATM
\* call strike, and the re-queried chains of the term structure answer.
ChainAnalysable ==
    /\ oprov.options.ok
    /\ ocalls # <<>>
    /\ LET chain == oprov.chains[ocalls[1]]
       IN  /\ chain.ok /\ chain.calls # <<>> /\ chain.puts # <<>>
           /\ oprov.fast.ok /\ oprov.fast.lastPrice # None
           /\ \E i \in All(chain.calls), j \in All(chain.puts) :
                 /\ chain.calls[i].strike = chain.puts[j].strike
                 /\ \A k \in All(chain.calls) :
                       Abs(chain.calls[i].strike - ThePrice) <= Abs(chain.calls[k].strike - ThePrice)
                 /\ (\E k \in All(chain.calls) :
                        /\ k # i
                        /\ Abs(chain.calls[i].strike - ThePrice)
                              = Abs(chain.calls[k].strike - ThePrice))
                       => (oprov.tie = "first" <=> \A k \in All(chain.calls) :
                              Abs(chain.calls[i].strike - ThePrice)
                                 = Abs(chain.calls[k].strike - ThePrice) => i <= k)
    /\ Len(Listed) >= 3 =>
          \A n \in 1..3 : oprov.chains[Listed[n]].ok /\ oprov.chains[Listed[n]].calls # <<>>

\* C17: pc_ratio_oi is put_oi_total / call_oi_total when call_oi_total > 0
\* and 0 when it is 0, pc_ratio_vol likewise on the volumes, and the totals
\* are the sums over the chain; a zero total never turns an analysable chain
\* into an error result.
C17_PcRatioZeroDenominator ==
    OptDone =>
        /\ ChainAnalysable => Analysed
        /\ Analysed =>
              /\ oout.call_oi_total = SumOver(TheCalls, All(TheCalls), "openInterest")
              /\ oout.put_oi_total = SumOver(ThePuts, All(ThePuts), "openInterest")
              /\ oout.call_volume_total = SumOver(TheCalls, All(TheCalls), "volume")
              /\ oout.put_volume_total = SumOver(ThePuts, All(ThePuts), "volume")
              /\ IsRatio(oout.pc_ratio_oi, oout.put_oi_total, oout.call_oi_total)
              /\ IsRatio(oout.pc_ratio_vol, oout.put_volume_total, oout.call_volume_total)

\* No call is open or traded while puts are: both ratios are 0.
C17_Witness ==
    /\ Analysed
    /\ oout.call_oi_total = 0 /\ oout.put_oi_total > 0
    /\ oout.call_volume_total = 0 /\ oout.put_volume_total > 0
    /\ oout.pc_ratio_oi = <<0, 1>>
    /\ oout.pc_ratio_vol = <<0, 1>>

\* C18: every call is in exactly one of ITM (strike < price) and OTM (strike
\* >= price), every put in exactly one of ITM (strike > price) and OTM
\* (strike <= price), and the four sums are the open interest of those
\* contracts, so each side's ITM and OTM sums add up to its total.
C18_ItmOtmPartition ==
    Analysed =>
        LET citm == {i \in All(TheCalls) : TheCalls[i].strike < ThePrice}
            cotm == {i \in All(TheCalls) : TheCalls[i].strike >= ThePrice}
            pitm == {i \in All(ThePuts) : ThePuts[i].strike > ThePrice}
            potm == {i \in All(ThePuts) : ThePuts[i].strike <= ThePrice}
        IN  /\ citm \cap cotm = {} /\ citm \cup cotm = All(TheCalls)
            /\ pitm \cap potm = {} /\ pitm \cup potm = All(ThePuts)
            /\ oout.call_oi_itm = SumOver(TheCalls, citm, "openInterest")
            /\ oout.call_oi_otm = SumOver(TheCalls, cotm, "openInterest")
            /\ oout.put_oi_itm = SumOver(ThePuts, pitm, "openInterest")
            /\ oout.put_oi_otm = SumOver(ThePuts, potm, "openInterest")
            /\ oout.call_oi_itm + oout.call_oi_otm = oout.call_oi_total
            /\ oout.put_oi_itm + oout.put_oi_otm = oout.put_oi_total

\* A call and a put struck exactly at the price, both with open interest,
\* beside an ITM call and an ITM put.
C18_Witness ==
    /\ Analysed
    /\ \E i \in All(TheCalls) : TheCalls[i].strike = ThePrice /\ TheCalls[i].openInterest > 0
    /\ \E i \in All(ThePuts) : ThePuts[i].strike = ThePrice /\ ThePuts[i].openInterest > 0
    /\ oout.call_oi_itm > 0 /\ oout.call_oi_otm > 0
    /\ oout.put_oi_itm > 0 /\ oout.put_oi_otm > 0

\* C19: the term structure has one point for each of the first min(3, E)
\* listed expirations, in listing order, and contango is the IV of the first
\* point minus the IV of the last when there are two or more points, else 0.
C19_UpToThreePoints ==
    Analysed =>
        LET ts == oout.term_structure
        IN  /\ Len(ts) = Min(3, Len(Listed))
            /\ \A i \in 1..Len(ts) : ts[i].expiration = Listed[i]
            /\ oout.contango = IF Len(ts) >= 2 THEN FracSub(ts[1].iv, ts[Len(ts)].iv)
                               ELSE <<0, 1>>

\* The pain of the option sellers at strike k.
PainAt(k) ==
    LET below == {i \in All(TheCalls) : TheCalls[i].strike < k}
        above == {i \in All(ThePuts) : ThePuts[i].strike > k}
        CallSide[I \in SUBSET All(TheCalls)] ==
            IF I = {} THEN 0
            ELSE LET i == CHOOSE x \in I : TRUE
                 IN  (k - TheCalls[i].strike) * TheCalls[i].openInterest + CallSide[I \ {i}]
        PutSide[I \in SUBSET All(ThePuts)] ==
            IF I = {} THEN 0
            ELSE LET i == CHOOSE x \in I : TRUE
                 IN  (ThePuts[i].strike - k) * ThePuts[i].openInterest + PutSide[I \ {i}]
    IN  CallSide[below] + PutSide[above]

OiAt(rows, k) == SumOver(rows, {i \in All(rows) : rows[i].strike = k}, "openInterest")
OiElsewhere(k) ==
    SumOver(TheCalls, {i \in All(TheCalls) : TheCalls[i].strike # k}, "openInterest")
    + SumOver(ThePuts, {i \in All(ThePuts) : ThePuts[i].strike # k}, "openInterest")

\* An open interest that exceeds the most pain all contracts at the other
\* strikes can cause together: each of them at most the spread of the strikes.
Spread ==
    (CHOOSE x \in Strikes : \A y \in Strikes : y <= x)
    - (CHOOSE x \in Strikes : \A y \in Strikes : x <= y)
Overwhelming(oi, k) == oi > Spread * OiElsewhere(k)

\* C21 as stated: a strike whose open interest, calls and puts together,
\* overwhelms that of every other strike is the max-pain strike.
C21_DominantStrikeIsMaxPain ==
    Analysed =>
        \A k \in StrikesOf(TheCalls) \cup StrikesOf(ThePuts) :
            Overwhelming(OiAt(TheCalls, k) + OiAt(ThePuts, k), k) => oout.max_pain_strike = k

\* C21: a strike at which the calls and the puts each carry an open interest
\* that overwhelms that of every other strike is the max-pain strike.
C21_DominantOnBothSides ==
    Analysed =>
        \A k \in StrikesOf(TheCalls) \cup StrikesOf(ThePuts) :
            (/\ Overwhelming(OiAt(TheCalls, k), k)
             /\ Overwhelming(OiAt(ThePuts, k), k)) => oout.max_pain_strike = k

\* The calls and the puts at 100 overwhelm a lower call and a higher put that
\* cause some pain there; 100 is reported.
C21_Witness ==
    /\ Analysed
    /\ Overwhelming(OiAt(TheCalls, 100), 100)
    /\ Overwhelming(OiAt(ThePuts, 100), 100)
    /\ OiElsewhere(100) > 0
    /\ PainAt(100) > 0
    /\ oout.max_pain_strike = 100

\* A contract of the chain as the provider gave it trades more than twice its
\* open interest; a contract without a volume does not.
Flagged(r) == r.volume # None /\ Val(r.volume) > 2 * r.openInterest
FlaggedStrikes(rows) == {rows[i].strike : i \in {j \in All(rows) : Flagged(rows[j])}}

\* C22: the unusual calls and puts are exactly the contracts whose volume is
\* more than twice their open interest, a contract without a volume is none
\* of them, and unusual_activity tells whether there is any.
C22_UnusualAboveTwiceOi ==
    Analysed =>
        /\ StrikesOf(oout.unusual_calls) = FlaggedStrikes(TheCalls)
        /\ StrikesOf(oout.unusual_puts) = FlaggedStrikes(ThePuts)
        /\ Len(oout.unusual_calls) = Cardinality(FlaggedStrikes(TheCalls))
        /\ Len(oout.unusual_puts) = Cardinality(FlaggedStrikes(ThePuts))
        /\ oout.unusual_activity <=>
              (FlaggedStrikes(TheCalls) # {} \/ FlaggedStrikes(ThePuts) # {})

\* A call at three times its open interest is the one unusual contract beside
\* a call at one and a half times, a put at twice and a put without a volume.
C22_Witness ==
    /\ Analysed
    /\ \E i, j \in All(TheCalls) :
          /\ TheCalls[i].volume = Some(3 * TheCalls[i].openInterest)
          /\ 2 * Val(TheCalls[j].volume) = 3 * TheCalls[j].openInterest
          /\ TheCalls[i].openInterest > 0 /\ TheCalls[j].openInterest > 0
          /\ StrikesOf(oout.unusual_calls) = {TheCalls[i].strike}
    /\ \E i, j \in All(ThePuts) :
          /\ ThePuts[i].volume = Some(2 * ThePuts[i].openInterest)
          /\ ThePuts[i].openInterest > 0
          /\ ThePuts[j].volume = None
    /\ oout.unusual_puts = <<>>
    /\ oout.unusual_activity

\* The keys of the historical IV block.
HistIvFields == {"hist_vol_30d", "iv_high_52w", "iv_low_52w", "iv_rank"}

\* C23: the historical IV block is absent or holds its four values; it is
\* present only if the recent history has at least 30 rows and the one-year
\* history at least 252; and an analysable chain is analysed whatever the
\* history calls give.
C23_HistIvGatedOnHistory ==
    /\ (OptDone /\ ChainAnalysable) => Analysed
    /\ Analysed =>
          \/ oout.hist_iv_data = None
          \/ /\ DOMAIN Val(oout.hist_iv_data) = HistIvFields
             /\ oprov.hist.recent.ok /\ oprov.hist.recent.rows >= MinHistRows
             /\ oprov.hist.year.ok /\ oprov.hist.year.rows >= TradingDaysPerYear

NormalizedOnce == fat \in {"done", "again"} /\ fin.fn = "normalize"
NormalizedTwice == fat = "again" /\ fin.fn = "normalize"

\* C24: a normalizer applied to the string it returned returns that string.
C24_NormalizeIdempotent == NormalizedTwice => fout.again = fout.out

\* A symbol with a slash and a share-class period is changed by the first
\* application and left alone by the second.
C24_Witness ==
    /\ NormalizedTwice
    /\ fin.arg.impl \in {"normalize_ticker_symbol", "normalize_symbol"}
    /\ InSeq("/", fin.arg.symbol) /\ InSeq(".", fin.arg.symbol)
    /\ fout.out # Some(fin.arg.symbol)
    /\ fout.again = fout.out

\* The string a normalizer applies its period rule to, the number of periods
\* in it, and the segment after its period.
Worked == IF fin.arg.impl = "normalize_symbol" THEN upper(strip(fin.arg.symbol))
          ELSE fin.arg.symbol
PeriodCount(s) == Cardinality({i \in 1..Len(s) : s[i] = "."})
SuffixOf(s) == split(s, ".")[2]
ExchangeSuffix(suffix) ==
    \/ Len(suffix) >= 2 /\ isupper(suffix)
    \/ suffix \in single_letter_exchanges

\* C25: on a symbol with a single period every normalizer keeps the period
\* when the suffix is two or more uppercase letters or one of L, F, P, and
\* converts it to a hyphen otherwise.
C25_PeriodRuleEveryNormalizer ==
    (NormalizedOnce /\ fout.out # None /\ PeriodCount(Worked) = 1) =>
        Val(fout.out) = IF ExchangeSuffix(SuffixOf(Worked))
                        THEN replace(Worked, "/", "-")
                        ELSE replace(replace(Worked, "/", "-"), ".", "-")

\* C26: normalize_ticker_symbol returns NEO.TO, 0700.HK, RIO.L and BHP.AX
\* unchanged and turns the period or slash of BRK.B, BRK/B, BRK.A, BRK/A,
\* BAC.PL and BAC/PL into a hyphen.
C26_DocumentedExamples ==
    (NormalizedOnce /\ fin.arg.impl = "normalize_ticker_symbol"
        /\ fin.arg.symbol \in DocumentedSymbols) =>
        fout.out = Some(IF fin.arg.symbol \in {NEO_TO, HK_0700, RIO_L, BHP_AX}
                        THEN fin.arg.symbol
                        ELSE replace(replace(fin.arg.symbol, "/", "-"), ".", "-"))

SectorDone == fat = "done" /\ fin.fn = "get_sector_data"

\* The display name and the normalized name of four sectors, with their ETF.
SectorNamePairs ==
    {[display |-> <<"technology">>, normalized |-> <<"tech">>, etf |-> "XLK"],
     [display |-> <<"real", " ", "estate">>, normalized |-> <<"real", "_", "estate">>,
      etf |-> "XLRE"],
     [display |-> <<"consumer", " ", "discretionary">>,
      normalized |-> <<"consumer", "_", "disc">>, etf |-> "XLY"],
     [display |-> <<"consumer", " ", "staples">>,
      normalized |-> <<"consumer", "_", "stpl">>, etf |-> "XLP"]}

\* C27: the display name and the normalized name of a sector give the same
\* sector ETF, and a name of a sector never gives "Unknown sector".
C27_DisplayAndNormalizedNames ==
    SectorDone =>
        \A p \in SectorNamePairs :
            fin.arg \in {p.display, p.normalized} => fout = [symbol |-> p.etf]

\* The chain of the chosen expiration was fetched with calls and puts, and the
\* price was there.
ChainFetched ==
    /\ OptDone /\ oprov.options.ok /\ ocalls # <<>>
    /\ oprov.chains[ocalls[1]].ok
    /\ oprov.chains[ocalls[1]].calls # <<>> /\ oprov.chains[ocalls[1]].puts # <<>>
    /\ oprov.fast.ok /\ oprov.fast.lastPrice # None

\* The call strike nearest the price; of two equally near ones the lower when
\* the sort puts the first row first, the higher otherwise.
NearestCallStrike ==
    LET ks == StrikesOf(oprov.chains[ocalls[1]].calls)
        near == {k \in ks : \A j \in ks : Abs(k - ThePrice) <= Abs(j - ThePrice)}
    IN  IF oprov.tie = "first" THEN CHOOSE k \in near : \A j \in near : k <= j
        ELSE CHOOSE k \in near : \A j \in near : k >= j

\* C28: the ATM strike is the call strike nearest the price whatever the puts
\* list, and where the fetched puts have no contract at that strike the call
\* returns an error and nothing else, having queried the one chain.
C28_NoPutAtAtmCallStrike ==
    ChainFetched =>
        /\ Analysed => oout.atm_strike = NearestCallStrike
        /\ NearestCallStrike \notin StrikesOf(oprov.chains[ocalls[1]].puts) =>
              /\ OnlyError
              /\ oout.error = <<IndexError>>
              /\ ocalls = <<ocalls[1]>>

\* The puts list a strike at the price but none at the nearest call strike.
C28_Witness ==
    /\ ChainFetched
    /\ ThePrice \in StrikesOf(oprov.chains[ocalls[1]].puts)
    /\ NearestCallStrike \notin StrikesOf(oprov.chains[ocalls[1]].puts)
    /\ OnlyError

\* A listed expiration whose chain re-query gives a summary: the query
\* answers and the chain has calls.
Answers(date) == oprov.chains[date].ok /\ oprov.chains[date].calls # <<>>

\* C29: with three or more listed expirations, a failing re-query of one of
\* the first three leaves an error and nothing else; where the analysis is
\* returned, all_expirations holds the listed expirations whose re-query
\* answered, in listed order, and no other.
C29_RequeryFailures ==
    /\ (ChainFetched /\ Len(Listed) >= 3 /\ \E i \in 1..3 : ~Answers(Listed[i])) => OnlyError
    /\ Analysed =>
          /\ [i \in 1..Len(oout.all_expirations) |-> oout.all_expirations[i].expiration]
                = SelectSeq(Listed, Answers)
          /\ ocalls = <<oout.expiration>>
                      \o (IF Len(Listed) >= 3 THEN SubSeq(Listed, 1, 3) ELSE <<>>)
                      \o Listed

\* Of four listed expirations the last fails: the other three are summarised
\* beside a term structure of three points.
C29_Witness ==
    /\ Analysed
    /\ Len(Listed) = 4
    /\ ~oprov.chains[Listed[4]].ok
    /\ Len(oout.all_expirations) = 3
    /\ Len(oout.term_structure) = 3

\* The known keys a requested name reaches: those of its category, or itself
\* when it is a symbol key; none for any other name.
RangeOf(seq) == {seq[i] : i \in 1..Len(seq)}
KnownKeys(name) ==
    IF lower(name) \in DOMAIN CATEGORY_MAPPING
    THEN RangeOf(CATEGORY_MAPPING[lower(name)]) \cap DOMAIN MARKET_SYMBOLS
    ELSE IF lower(name) \in DOMAIN MARKET_SYMBOLS THEN {lower(name)}
    ELSE {}
Unknown(name) == KnownKeys(name) = {}
SnapshotReturned(c) == Returned(c) /\ req[c].op = "get_market_snapshot"

\* C30: when get_market_snapshot returns, the jobs it submitted and the keys
\* of its result are exactly the known keys reached from the requested names:
\* a name that is neither a category nor a symbol key has no job and no
\* entry, and a request of such names alone returns the empty mapping.
C30_UnknownNamesDropped ==
    \A c \in Calls :
        SnapshotReturned(c) =>
            LET reached == UNION {KnownKeys(n) : n \in RangeOf(req[c].categories)}
            IN  /\ Keys(c) = reached
                /\ DOMAIN Val(ret[c]) = reached
                /\ \A n \in RangeOf(req[c].categories) :
                      Unknown(n) => n \notin Keys(c) /\ n \notin DOMAIN Val(ret[c])
                /\ (\A n \in RangeOf(req[c].categories) : Unknown(n)) =>
                      futures[c] = <<>> /\ Val(ret[c]) = EmptyDict

\* A call asked for an unknown name beside a symbol key and returned the entry
\* of that key alone, from the one job it submitted.
C30_Witness ==
    \E c \in Calls :
        /\ SnapshotReturned(c)
        /\ req[c].categories = <<"bogus", "VIX">>
        /\ Len(futures[c]) = 1
        /\ DOMAIN Val(ret[c]) = {"vix"}

====
